---- MODULE Spec2Model ----
(***************************************************************************)
(* State-machine model of the border-security WSN simulator               *)
(* (PerfectBorderSecuritySimulator, SensorNode, ClusterHead, CameraModule, *)
(* AIGateway).                                                             *)
(*                                                                         *)
(* Units.  Positions are metres.  Battery is kept in thousandths of a      *)
(* percent (Milli per percent) so that the consumption figures 0.015,      *)
(* 0.008 and 0.025 are the integers 15, 8 and 25.  vibration and acoustic  *)
(* are kept in tenths (0.8 is 8), confidence in hundredths (0.95 is 95).   *)
(* Distances are compared through their squares (sqrt is monotone).        *)
(* Wall-clock timestamps (datetime.now()) and printed text are not state.  *)
(***************************************************************************)
EXTENDS Integers, Sequences, FiniteSets, TLC

VARIABLES
    sensor_nodes,        \* self.sensor_nodes: sequence of SensorNode records
    cluster_heads,       \* self.cluster_heads: sequence of ClusterHead records
    current_intrusions,  \* self.current_intrusions: sequence of intrusion dicts
    simulation_time,     \* self.simulation_time
    cycle_count,         \* self.cycle_count
    performance_metrics, \* self.performance_metrics
    intrusion_alerts,    \* self.gateway.intrusion_alerts
    sensor_data_stream,  \* len(self.sensor_data_stream)
    camera_data_stream,  \* len(self.camera_data_stream)
    pc,                  \* position inside run_realtime_cycle
    ch_index,            \* position of the for loop of _process_cluster_data
    final_reports        \* the reports _display_perfect_report has printed

vars == <<sensor_nodes, cluster_heads, current_intrusions, simulation_time,
          cycle_count, performance_metrics, intrusion_alerts,
          sensor_data_stream, camera_data_stream, pc, ch_index,
          final_reports>>

----------------------------------------------------------------------------
(* Configuration: the simulator takes its configuration as a constructor   *)
(* argument.  The values below are those of SIMULATION_CONFIG, except the  *)
(* ones named as bounds, which scale the shipped run down.                 *)

BorderLength == 1000
BorderWidth == 250
ClusterHeadCount == 4
SensorRange == 120
CommunicationRange == 200
ConfiguredNodes == 32
CameraNodePercentage == 25
ConfidenceThreshold == 95
InitialBatteryMin == 85
InitialBatteryMax == 100
SolarRechargeAmount == 12
CycleDuration == 1

\* Bounds of the model.  TotalNodes, DurationMin and DurationMax scale
\* sensor_nodes (32), duration_min (30) and duration_max (60) down;
\* MaxCycles caps the cycles of a run (total_cycles is 75), MaxIntrusions
\* the spawns of a run and MaxPositives the non-normal answers the
\* classifier gives in a run.
TotalNodes == 4
MaxCycles == 2
MaxIntrusions == 2
MaxPositives == 2
DurationMin == 1
DurationMax == 2

\* Program constants written in the code.
Milli == 1000
BaseConsumption == 15
SensingConsumption == 8
CameraConsumption == 25
CameraTolerance == 25
MatchTolerance == 100
AffectedTolerance == 10
MaxHistoryLength == 50
MaxPredictionHistory == 20
StreamLimit == 150
StreamKeep == 100
AmbientThermal == 25
AcousticEventLevel == 5
PerfectCameraPositions == <<100, 300, 500, 700, 150, 350, 650, 850>>
IntrusionTypes == {"human", "animal", "vehicle"}

\* Samples the random draws are taken from.
IntrusionPositions == {300, 450}
YOffsets == {60, 125}
InitialBatteries == {InitialBatteryMin * Milli, InitialBatteryMax * Milli}
SignalStrength == 8

----------------------------------------------------------------------------
(* Helpers *)

Abs(a) == IF a < 0 THEN -a ELSE a
Max2(a, b) == IF a > b THEN a ELSE b
Min2(a, b) == IF a < b THEN a ELSE b
MinOf(S) == CHOOSE m \in S : \A o \in S : m <= o
MaxOf(S) == CHOOSE m \in S : \A o \in S : m >= o
Indices(s) == 1..Len(s)

RECURSIVE SumSeq(_)
SumSeq(s) == IF s = <<>> THEN 0 ELSE Head(s) + SumSeq(Tail(s))

RECURSIVE MaxSeq(_)
MaxSeq(s) == IF Len(s) = 1 THEN s[1] ELSE Max2(s[1], MaxSeq(Tail(s)))

Dist2(x1, y1, x2, y2) == (x1 - x2) * (x1 - x2) + (y1 - y2) * (y1 - y2)

----------------------------------------------------------------------------
(* Construction: SensorNode.__init__, CameraModule.__init__,               *)
(* ClusterHead.__init__                                                    *)

NoCamera == [status |-> "NONE", footage_log |-> 0, total_recordings |-> 0]

NewCameraModule == [status |-> "IDLE", footage_log |-> 0, total_recordings |-> 0]

NewSensorNode(x, y, has_camera, battery) ==
    [x |-> x, y |-> y, has_camera |-> has_camera, is_active |-> TRUE,
     battery |-> battery, cluster_head_id |-> 0,
     sensor_readings |->
         [pir |-> 0, vibration |-> 0, thermal |-> AmbientThermal,
          acoustic |-> 0, signal_strength |-> SignalStrength,
          intrusion_detected |-> FALSE],
     camera_module |-> IF has_camera THEN NewCameraModule ELSE NoCamera,
     camera_status |-> "IDLE",
     thermal_history |-> <<>>]

NewClusterHead(x, y) ==
    [x |-> x, y |-> y, is_active |-> TRUE, battery |-> 100 * Milli,
     cluster_members |-> <<>>, prediction_history |-> <<>>,
     data_buffer |-> <<>>]

----------------------------------------------------------------------------
(* Deployment: _deploy_perfect_network and _assign_clusters                *)

\* x of the i-th node (i from 0): (i / total_nodes) * border_length
NodeX(i, n) == (i * BorderLength) \div n

\* x of the k-th cluster head (k from 1): border_length * k / (count + 1)
HeadX(k) == (BorderLength * k) \div (ClusterHeadCount + 1)

HeadY == BorderWidth \div 2

\* int(total_nodes * camera_node_percentage)
CameraCount(n) == (n * CameraNodePercentage) \div 100

\* The anchors within the tolerance of x, by their place in the list.
NearAnchors(x) ==
    {k \in Indices(PerfectCameraPositions) :
        Abs(x - PerfectCameraPositions[k]) < CameraTolerance}

\* The has_camera flags of nodes i..n-1, camera_assigned being the set of
\* anchors used by the nodes before i.
RECURSIVE DeployCameras(_, _, _)
DeployCameras(i, n, camera_assigned) ==
    IF i >= n THEN <<>>
    ELSE LET near == NearAnchors(NodeX(i, n))
             has_camera == near # {}
                           /\ Cardinality(camera_assigned) < CameraCount(n)
             used == IF has_camera
                     THEN camera_assigned
                          \cup {PerfectCameraPositions[MinOf(near)]}
                     ELSE camera_assigned
         IN <<has_camera>> \o DeployCameras(i + 1, n, used)

\* The loop over the cluster heads of _assign_clusters for one node: the
\* head kept so far (0: none, min_distance still infinite) and the square
\* of its distance.
RECURSIVE ScanHeads(_, _, _, _, _)
ScanHeads(node, heads, k, nearest_ch, min_d2) ==
    IF k > Len(heads) THEN nearest_ch
    ELSE LET d2 == Dist2(node.x, node.y, heads[k].x, heads[k].y)
         IN IF (nearest_ch = 0 \/ d2 < min_d2)
               /\ d2 <= CommunicationRange * CommunicationRange
            THEN ScanHeads(node, heads, k + 1, k, d2)
            ELSE ScanHeads(node, heads, k + 1, nearest_ch, min_d2)

\* Variant: the first head in range, whatever its distance.
FirstHeadInRange(node, heads) ==
    LET near == {k \in Indices(heads) :
                    Dist2(node.x, node.y, heads[k].x, heads[k].y)
                        <= CommunicationRange * CommunicationRange}
    IN IF near = {} THEN 0 ELSE MinOf(near)

\* Variant: between heads at the same distance, a node that did not start
\* with a full battery takes the later one.
NearestHeadByCharge(node, heads) ==
    LET first == ScanHeads(node, heads, 1, 0, 0)
        same == {k \in Indices(heads) :
                    /\ first # 0
                    /\ Dist2(node.x, node.y, heads[k].x, heads[k].y)
                        = Dist2(node.x, node.y,
                                heads[first].x, heads[first].y)}
    IN IF first # 0 /\ node.battery < InitialBatteryMax * Milli
       THEN MaxOf(same) ELSE first

NearestClusterHead(node, heads) == ScanHeads(node, heads, 1, 0, 0)

\* Variant: the member is appended but its cluster_head_id is left alone.
AddClusterMemberUnnamed(net, k, i) ==
    [nodes |-> net.nodes,
     heads |-> [net.heads EXCEPT ![k].cluster_members = Append(@, i)]]

\* ClusterHead.add_cluster_member on the network net = [nodes, heads]
AddClusterMember(net, k, i) ==
    IF \E j \in Indices(net.heads[k].cluster_members) :
           net.heads[k].cluster_members[j] = i
    THEN net
    ELSE [nodes |-> [net.nodes EXCEPT ![i].cluster_head_id = k],
          heads |-> [net.heads EXCEPT
                        ![k].cluster_members = Append(@, i)]]

RECURSIVE AssignFrom(_, _)
AssignFrom(net, i) ==
    IF i > Len(net.nodes) THEN net
    ELSE LET k == NearestClusterHead(net.nodes[i], net.heads)
         IN AssignFrom(IF k # 0 THEN AddClusterMember(net, k, i) ELSE net,
                       i + 1)

AssignClusters(net) == AssignFrom(net, 1)

\* The network after _deploy_perfect_network, for n nodes whose random
\* draws are ys (y offset) and bs (initial battery).
DeployPerfectNetwork(n, ys, bs) ==
    LET cams == DeployCameras(0, n, {})
        nodes == [i \in 1..n |->
                    NewSensorNode(NodeX(i - 1, n), ys[i], cams[i], bs[i])]
        heads == [k \in 1..ClusterHeadCount |->
                    NewClusterHead(HeadX(k), HeadY)]
    IN AssignClusters([nodes |-> nodes, heads |-> heads])

\* PerfectBorderSecuritySimulator.__init__
Constructed(n, ys, bs) ==
    LET net == DeployPerfectNetwork(n, ys, bs)
    IN /\ sensor_nodes = net.nodes
       /\ cluster_heads = net.heads
       /\ current_intrusions = <<>>
       /\ simulation_time = 0
       /\ cycle_count = 0
       /\ performance_metrics =
              [total_intrusions |-> 0, detected_intrusions |-> 0,
               false_positives |-> 0, response_times |-> <<>>]
       /\ intrusion_alerts = <<>>
       /\ sensor_data_stream = 0
       /\ camera_data_stream = 0
       /\ pc = "ready"
       /\ ch_index = 0
       /\ final_reports = <<>>

\* The deployment whose nodes all lie on the line of the cluster heads and
\* start with a full battery.
Init ==
    Constructed(TotalNodes, [i \in 1..TotalNodes |-> HeadY],
                [i \in 1..TotalNodes |-> InitialBatteryMax * Milli])

----------------------------------------------------------------------------
(* run_realtime_cycle, first part: the fault and recovery pass             *)

SensorNames == {"pir", "vibration", "thermal", "acoustic"}

\* SensorNode.simulate_sensor_fault("random"); draw is "none" when
\* random.random() >= 0.05, else the sensor random.choice picked.
SimulateSensorFault(node, draw) ==
    IF draw \in SensorNames
    THEN [node EXCEPT !.sensor_readings[draw] = 0]
    ELSE node

\* CameraModule.simulate_camera_fault("random"); hit: random.random() < 0.005
SimulateCameraFault(cam, hit) ==
    IF hit THEN [cam EXCEPT !.status = "FAULTY"] ELSE cam

\* Variant: a recovered camera resumes recording.
AttemptAutoRecoveryResuming(cam, hit) ==
    IF cam.status = "FAULTY" /\ hit
    THEN [cam EXCEPT !.status = "RECORDING"]
    ELSE cam

\* CameraModule.attempt_auto_recovery; hit: random.random() < 0.1
AttemptAutoRecovery(cam, hit) ==
    IF cam.status = "FAULTY" /\ hit THEN [cam EXCEPT !.status = "IDLE"] ELSE cam

\* The body of the loop over the nodes at the start of run_realtime_cycle.
FaultedNode(node, sensor_draw, camera_hit) ==
    IF ~node.is_active THEN node
    ELSE LET faulted == SimulateSensorFault(node, sensor_draw)
         IN IF faulted.has_camera
            THEN [faulted EXCEPT !.camera_module =
                     IF @.status # "FAULTY"
                     THEN SimulateCameraFault(@, camera_hit)
                     ELSE AttemptAutoRecovery(@, camera_hit)]
            ELSE faulted

\* The start of a cycle: the loop of run_perfect_simulation enters
\* run_realtime_cycle, which counts the cycle and runs the fault pass.
\* sensor_faults and camera_faults are the outcomes the random draws of
\* the pass may take, as functions of the node.
FaultPassAmong(sensor_faults, camera_faults) ==
    /\ pc = "ready"
    /\ cycle_count < MaxCycles
    /\ \E sd \in sensor_faults, ch \in camera_faults :
           sensor_nodes' = [i \in Indices(sensor_nodes) |->
                               FaultedNode(sensor_nodes[i], sd[i], ch[i])]
    /\ cycle_count' = cycle_count + 1
    /\ pc' = "intrusions"
    /\ UNCHANGED <<cluster_heads, current_intrusions, simulation_time,
                   performance_metrics, intrusion_alerts, sensor_data_stream,
                   camera_data_stream, ch_index,
                   final_reports>>

\* The fault pass when every node draws from the same outcomes.
FaultPass(sensor_draws, camera_hits) ==
    FaultPassAmong([Indices(sensor_nodes) -> sensor_draws],
                   [Indices(sensor_nodes) -> camera_hits])

\* The sensor fault draws that strike none but the nodes of struck.
StrikesOnly(struck, sensor_draws) ==
    {sd \in [Indices(sensor_nodes) -> sensor_draws \cup {"none"}] :
        \A i \in Indices(sensor_nodes) : i \notin struck => sd[i] = "none"}

\* No camera fault and no camera recovery in the pass.
NoCameraHit == [Indices(sensor_nodes) -> {FALSE}]

----------------------------------------------------------------------------
(* _simulate_intrusions *)

\* Variant: an intrusion is kept one step longer (<= for <).
UnexpiredInclusive(intrusions, current_time) ==
    SelectSeq(intrusions,
              LAMBDA intr : current_time - intr.start_time <= intr.duration)

\* Variant: the expired intrusions are never dropped.
Unremoved(intrusions, current_time) == intrusions

\* The list comprehension that drops the expired intrusions.
Unexpired(intrusions, current_time) ==
    SelectSeq(intrusions,
              LAMBDA intr : current_time - intr.start_time < intr.duration)

NewIntrusion(intrusion_type, position_x, duration, now) ==
    [type |-> intrusion_type, position |-> position_x, start_time |-> now,
     duration |-> duration, detected |-> FALSE, affected_nodes |-> 0]

\* The draws of a spawn: random.choices over the types, random.uniform
\* over the border, random.randint(duration_min, duration_max).
SpawnDraws(types, positions) ==
    [type : types, position : positions, duration : DurationMin..DurationMax]

\* Values of random.random(), in hundredths.
RandomUnit == {0, 29, 30, 99}

\* Variant: the draw is compared with <=.
SpawnedInclusive(u, probability) == u <= probability

\* random.random() < spawn_probability
Spawned(u, probability) == u < probability

\* The draws a spawn may take under a spawn probability (in hundredths):
\* none when no value of random.random() lies below it.
SpawnsAt(probability, types, positions) ==
    IF \E u \in RandomUnit : Spawned(u, probability)
    THEN SpawnDraws(types, positions)
    ELSE {}

\* The draws of a cycle in which a human or a vehicle may start crossing
\* near the second cluster head.
HumanOrVehicleCrossing == SpawnDraws({"human", "vehicle"}, {450})

\* spawns: the draws a spawn may take; the draw random.random() <
\* spawn_probability may fail (no spawn) in every cycle.
SimulateIntrusions(spawns) ==
    /\ pc = "intrusions"
    /\ LET kept == Unexpired(current_intrusions, simulation_time)
       IN \/ /\ current_intrusions' = kept
             /\ UNCHANGED performance_metrics
          \/ /\ performance_metrics.total_intrusions < MaxIntrusions
             /\ \E d \in spawns :
                    current_intrusions' =
                        Append(kept, NewIntrusion(d.type, d.position,
                                                  d.duration, simulation_time))
             /\ performance_metrics' =
                    [performance_metrics EXCEPT !.total_intrusions = @ + 1]
    /\ pc' = "collect"
    /\ UNCHANGED <<sensor_nodes, cluster_heads, simulation_time, cycle_count,
                   intrusion_alerts, sensor_data_stream, camera_data_stream,
                   ch_index,
                   final_reports>>

----------------------------------------------------------------------------
(* collect_real_time_data: reset, reading synthesis, per-node collection   *)

\* self.config["network"]["sensor_range"] * 1.05
ActivationRange == (SensorRange * 105) \div 100

\* self.config["intrusion"]["detection_ranges"]
DetectionRange(intrusion_type) ==
    CASE intrusion_type = "human" -> 70
      [] intrusion_type = "animal" -> 50
      [] intrusion_type = "vehicle" -> 150

\* detection_ranges[type] * 1.2
NearbyRange(intrusion_type) == (DetectionRange(intrusion_type) * 12) \div 10

\* Variant: the human pattern is forced whatever the type.
ActivatedAsHuman(readings, intrusion_type) ==
    [readings EXCEPT !.pir = 1, !.thermal = 36, !.vibration = 8,
                     !.acoustic = 9, !.intrusion_detected = TRUE]

\* Variant: a node an earlier intrusion of the loop has activated keeps its
\* readings.
ActivatedKeepingFirst(readings, intrusion_type) ==
    IF readings.intrusion_detected THEN readings
    ELSE [readings EXCEPT
             !.pir = 1,
             !.thermal = CASE intrusion_type = "human" -> 36
                           [] intrusion_type = "vehicle" -> 55
                           [] OTHER -> 32,
             !.vibration = CASE intrusion_type = "human" -> 8
                             [] intrusion_type = "vehicle" -> 10
                             [] OTHER -> 6,
             !.acoustic = CASE intrusion_type = "human" -> 9
                            [] intrusion_type = "vehicle" -> 10
                            [] OTHER -> 7,
             !.intrusion_detected = TRUE]

\* The readings _activate_nearby_sensors forces on a node it covers.
Activated(readings, intrusion_type) ==
    LET moved == [readings EXCEPT !.pir = 1]
        forced ==
            CASE intrusion_type = "human" ->
                   [moved EXCEPT !.thermal = 36, !.vibration = 8,
                                 !.acoustic = 9]
              [] intrusion_type = "vehicle" ->
                   [moved EXCEPT !.vibration = 10, !.acoustic = 10,
                                 !.thermal = 55]
              [] intrusion_type = "animal" ->
                   [moved EXCEPT !.thermal = 32, !.vibration = 6,
                                 !.acoustic = 7]
              [] OTHER -> moved
    IN [forced EXCEPT !.intrusion_detected = TRUE]

\* distance <= activation_range and node.is_active
Covered(node, position_x) ==
    Abs(node.x - position_x) <= ActivationRange /\ node.is_active

\* The index of the first intrusion the second loop of
\* _activate_nearby_sensors credits with the count (0: none).
CreditedIntrusion(intrusions, position_x, intrusion_type) ==
    LET hits == {j \in Indices(intrusions) :
                    /\ Abs(intrusions[j].position - position_x)
                          < AffectedTolerance
                    /\ intrusions[j].type = intrusion_type}
    IN IF hits = {} THEN 0 ELSE MinOf(hits)

\* _activate_nearby_sensors on st = [nodes, intrusions]
ActivateNearbySensors(st, position_x, intrusion_type) ==
    LET affected_count ==
            Cardinality({i \in Indices(st.nodes) :
                            Covered(st.nodes[i], position_x)})
        j == CreditedIntrusion(st.intrusions, position_x, intrusion_type)
    IN [nodes |-> [i \in Indices(st.nodes) |->
                      IF Covered(st.nodes[i], position_x)
                      THEN [st.nodes[i] EXCEPT !.sensor_readings =
                               Activated(@, intrusion_type)]
                      ELSE st.nodes[i]],
        intrusions |-> IF j = 0 THEN st.intrusions
                       ELSE [st.intrusions EXCEPT
                                ![j].affected_nodes = affected_count]]

\* The loop over current_intrusions of collect_real_time_data, from the
\* j-th intrusion on.
RECURSIVE SynthesizeFrom(_, _)
SynthesizeFrom(st, j) ==
    IF j > Len(st.intrusions) THEN st
    ELSE SynthesizeFrom(
             ActivateNearbySensors(st, st.intrusions[j].position,
                                   st.intrusions[j].type),
             j + 1)

\* Variant: the synthesis without the reset of the flags.
SynthesizeWithoutReset(nodes, intrusions) ==
    SynthesizeFrom([nodes |-> nodes, intrusions |-> intrusions], 1)

\* Variant: the synthesis followed by the reset of the flags.
ResetAfterSynthesis(nodes, intrusions) ==
    LET st == SynthesizeFrom([nodes |-> nodes, intrusions |-> intrusions], 1)
    IN [nodes |-> [i \in Indices(st.nodes) |->
                      [st.nodes[i] EXCEPT
                          !.sensor_readings.intrusion_detected = FALSE]],
        intrusions |-> st.intrusions]

\* The reset of the intrusion_detected flags followed by the synthesis.
Synthesize(nodes, intrusions) ==
    SynthesizeFrom(
        [nodes |-> [i \in Indices(nodes) |->
                       [nodes[i] EXCEPT
                           !.sensor_readings.intrusion_detected = FALSE]],
         intrusions |-> intrusions],
        1)

\* Variant: the instantaneous thermal reading of the node.
CurrentThermal(node) == node.sensor_readings.thermal

\* max_temp_since_last_check, read before the history is extended
MaxTempSinceLastCheck(node) ==
    IF node.thermal_history = <<>> THEN AmbientThermal
    ELSE MaxSeq(node.thermal_history)

\* _update_sensor_history (the thermal history; the pir, vibration and
\* acoustic histories are kept the same way and read nowhere in a cycle)
UpdateSensorHistory(node) ==
    LET longer == Append(node.thermal_history, node.sensor_readings.thermal)
    IN [node EXCEPT !.thermal_history =
           IF Len(longer) > MaxHistoryLength THEN Tail(longer) ELSE longer]

\* The state change of SensorNode.get_real_time_sensor_data
GetRealTimeSensorData(node) == UpdateSensorHistory(node)

\* SensorNode.update_camera_status
UpdateCameraStatus(node) ==
    IF node.has_camera
    THEN [node EXCEPT !.camera_status = node.camera_module.status]
    ELSE node

\* CameraModule.activate_recording
ActivateRecording(cam, node_active) ==
    IF cam.status # "FAULTY" /\ node_active
    THEN [cam EXCEPT !.status = "RECORDING", !.footage_log = @ + 1,
                     !.total_recordings = @ + 1]
    ELSE cam

\* CameraModule.stop_recording
StopRecording(cam) ==
    IF cam.status = "RECORDING" THEN [cam EXCEPT !.status = "IDLE"] ELSE cam

\* Variant: the camera follows the flag of its node alone.
ShouldActivateOnFlag(node, intrusions) ==
    node.sensor_readings.intrusion_detected

\* should_activate of collect_real_time_data
ShouldActivate(node, intrusions) ==
    \/ node.sensor_readings.intrusion_detected
    \/ \E j \in Indices(intrusions) :
           Abs(node.x - intrusions[j].position)
               <= NearbyRange(intrusions[j].type)

\* The body of the loop over the nodes of collect_real_time_data.
\* process_live_feed only extends the detection log, which is not kept.
CollectNode(node, intrusions) ==
    IF ~node.is_active THEN node
    ELSE LET read == UpdateCameraStatus(GetRealTimeSensorData(node))
         IN IF read.has_camera
            THEN [read EXCEPT !.camera_module =
                     IF ShouldActivate(read, intrusions)
                     THEN IF @.status # "RECORDING"
                          THEN ActivateRecording(@, read.is_active)
                          ELSE @
                     ELSE IF @.status = "RECORDING"
                          THEN StopRecording(@)
                          ELSE @]
            ELSE read

\* Keep only recent data: more than 150 entries are cut to the last 100.
TrimStream(len) == IF len > StreamLimit THEN StreamKeep ELSE len

\* What the body of the loop does for one node: "ok", it runs to its end;
\* "read", get_real_time_sensor_data raises; "camera", a call on the
\* camera module raises.  The handler prints and continues.
CollectOutcomes == {"ok", "read", "camera"}

\* The body of the loop with its handler.
CollectNodeWith(node, intrusions, outcome) ==
    IF ~node.is_active \/ outcome = "ok" THEN CollectNode(node, intrusions)
    ELSE IF outcome = "read" THEN node
    ELSE IF node.has_camera
         THEN UpdateCameraStatus(GetRealTimeSensorData(node))
         ELSE CollectNode(node, intrusions)

\* Variant: the handler is around the loop, so the nodes after a failing
\* one are not reached.
ReachedUntilFailure(oc, i) ==
    \A j \in DOMAIN oc : j < i => oc[j] = "ok"

\* Whether the loop reaches node i, the outcomes of the nodes being oc:
\* the handler is inside the loop.
Reached(oc, i) == i \in DOMAIN oc

\* The outcomes in which only the nodes of failing may fail.
FailuresAmong(failing) ==
    {oc \in [Indices(sensor_nodes) -> CollectOutcomes] :
        \A i \in Indices(sensor_nodes) : i \notin failing => oc[i] = "ok"}

NoFailure == [Indices(sensor_nodes) -> {"ok"}]

\* collect_real_time_data; outcomes: what the loop body may do per node.
CollectRealTimeDataWith(outcomes) ==
    /\ pc = "collect"
    /\ \E oc \in outcomes :
        LET st == Synthesize(sensor_nodes, current_intrusions)
            appended(i) == /\ Reached(oc, i)
                           /\ st.nodes[i].is_active
                           /\ oc[i] # "read"
        IN /\ sensor_nodes' = [i \in Indices(st.nodes) |->
                                  IF Reached(oc, i)
                                  THEN CollectNodeWith(st.nodes[i],
                                                       st.intrusions, oc[i])
                                  ELSE st.nodes[i]]
           /\ current_intrusions' = st.intrusions
           /\ sensor_data_stream' =
                  TrimStream(sensor_data_stream
                      + Cardinality({i \in Indices(st.nodes) :
                                        appended(i)}))
           /\ camera_data_stream' =
                  TrimStream(camera_data_stream
                      + Cardinality({i \in Indices(st.nodes) :
                                        /\ appended(i)
                                        /\ st.nodes[i].has_camera
                                        /\ oc[i] = "ok"}))
    /\ pc' = "process"
    /\ ch_index' = 1
    /\ UNCHANGED <<cluster_heads, simulation_time, cycle_count,
                   performance_metrics, intrusion_alerts,
                   final_reports>>

CollectRealTimeData == CollectRealTimeDataWith(NoFailure)

----------------------------------------------------------------------------
(* ClusterHead.collect_cluster_data and _aggregate_sensor_data             *)

\* ClusterHead._is_in_range
IsInRange(head, node) ==
    Dist2(head.x, head.y, node.x, node.y)
        <= CommunicationRange * CommunicationRange

\* Variant: every active node in range, whatever its cluster_head_id.
ActiveInRange(k, nodes, heads) ==
    SelectSeq([i \in Indices(nodes) |-> i],
              LAMBDA i : /\ nodes[i].is_active
                         /\ IsInRange(heads[k], nodes[i]))

\* The indices of the active members in communication range of head k,
\* in the order of the list all_sensor_nodes.
ActiveMembers(k, nodes, heads) ==
    SelectSeq([i \in Indices(nodes) |-> i],
              LAMBDA i : /\ nodes[i].is_active
                         /\ nodes[i].cluster_head_id = k
                         /\ IsInRange(heads[k], nodes[i]))

\* _aggregate_sensor_data; a mean is kept as its sum (the count is
\* total_nodes).
AggregateSensorData(members, nodes) ==
    LET readings(i) == nodes[members[i]].sensor_readings
    IN [total_motion |-> SumSeq([i \in Indices(members) |-> readings(i).pir]),
        sum_vibration |->
            SumSeq([i \in Indices(members) |-> readings(i).vibration]),
        max_vibration |->
            MaxSeq([i \in Indices(members) |-> readings(i).vibration]),
        sum_temperature |->
            SumSeq([i \in Indices(members) |-> readings(i).thermal]),
        max_temperature |->
            MaxSeq([i \in Indices(members) |->
                       MaxTempSinceLastCheck(nodes[members[i]])]),
        acoustic_events |->
            Cardinality({i \in Indices(members) :
                            readings(i).acoustic > AcousticEventLevel}),
        intrusion_nodes |->
            Cardinality({i \in Indices(members) :
                            readings(i).intrusion_detected}),
        camera_nodes |->
            Cardinality({i \in Indices(members) :
                            /\ nodes[members[i]].has_camera
                            /\ nodes[members[i]].camera_status
                                  = "RECORDING"})]

\* Variant: a head without a snapshot still records the empty collection in
\* its data buffer.
CollectClusterDataBuffered(k, nodes, heads) ==
    LET members == ActiveMembers(k, nodes, heads)
    IN IF ~heads[k].is_active \/ members = <<>>
       THEN [produced |-> FALSE, data |-> <<>>, nodes |-> nodes,
             heads |-> [heads EXCEPT ![k].data_buffer =
                           Append(@, [cluster_id |-> k, total_nodes |-> 0])]]
       ELSE LET data == [cluster_id |-> k,
                         cluster_position |-> heads[k].x,
                         total_nodes |-> Len(members),
                         active_members |-> members,
                         sensor_summary |->
                             AggregateSensorData(members, nodes)]
            IN [produced |-> TRUE, data |-> data,
                nodes |-> [i \in Indices(nodes) |->
                              IF \E m \in Indices(members) : members[m] = i
                              THEN GetRealTimeSensorData(nodes[i])
                              ELSE nodes[i]],
                heads |-> [heads EXCEPT ![k].data_buffer = Append(@, data)]]

\* collect_cluster_data of head k: whether a snapshot is produced, the
\* snapshot, and the nodes and heads it leaves (the aggregation reads each
\* member through get_real_time_sensor_data, which extends its history).
CollectClusterData(k, nodes, heads) ==
    LET members == ActiveMembers(k, nodes, heads)
    IN IF ~heads[k].is_active \/ members = <<>>
       THEN [produced |-> FALSE, data |-> <<>>, nodes |-> nodes,
             heads |-> heads]
       ELSE LET data == [cluster_id |-> k,
                         cluster_position |-> heads[k].x,
                         total_nodes |-> Len(members),
                         active_members |-> members,
                         sensor_summary |->
                             AggregateSensorData(members, nodes)]
            IN [produced |-> TRUE, data |-> data,
                nodes |-> [i \in Indices(nodes) |->
                              IF \E m \in Indices(members) : members[m] = i
                              THEN GetRealTimeSensorData(nodes[i])
                              ELSE nodes[i]],
                heads |-> [heads EXCEPT ![k].data_buffer = Append(@, data)]]

\* Variant: the oldest entry is removed one arrival early (>= for >).
UpdatePredictionHistoryEarlyTrim(head, prediction, confidence) ==
    LET longer == Append(head.prediction_history,
                         [prediction |-> prediction,
                          confidence |-> confidence])
    IN [head EXCEPT !.prediction_history =
           IF Len(longer) >= MaxPredictionHistory THEN Tail(longer)
           ELSE longer]

\* ClusterHead.update_prediction_history
UpdatePredictionHistory(head, prediction, confidence) ==
    LET longer == Append(head.prediction_history,
                         [prediction |-> prediction,
                          confidence |-> confidence])
    IN [head EXCEPT !.prediction_history =
           IF Len(longer) > MaxPredictionHistory THEN Tail(longer)
           ELSE longer]

----------------------------------------------------------------------------
(* AIGateway.generate_alert and the matching of _process_cluster_data      *)

\* AIGateway._calculate_severity
CalculateSeverity(intrusion_type, confidence) ==
    IF confidence < 80 THEN "LOW"
    ELSE IF intrusion_type = "human" /\ confidence >= 95 THEN "CRITICAL"
    ELSE IF intrusion_type = "vehicle" /\ confidence >= 90 THEN "HIGH"
    ELSE "MEDIUM"

\* Variant: the alerts are numbered from zero.
GenerateAlertFromZero(alerts, intrusion_type, confidence, cluster_data) ==
    Append(alerts,
           [alert_id |-> Len(alerts),
            intrusion_type |-> intrusion_type,
            confidence |-> confidence,
            cluster_id |-> cluster_data.cluster_id,
            location |-> cluster_data.cluster_position,
            severity |-> CalculateSeverity(intrusion_type, confidence),
            affected_nodes |-> cluster_data.sensor_summary.intrusion_nodes])

\* The alert generate_alert appends to the log.
GenerateAlert(alerts, intrusion_type, confidence, cluster_data) ==
    Append(alerts,
           [alert_id |-> Len(alerts) + 1,
            intrusion_type |-> intrusion_type,
            confidence |-> confidence,
            cluster_id |-> cluster_data.cluster_id,
            location |-> cluster_data.cluster_position,
            severity |-> CalculateSeverity(intrusion_type, confidence),
            affected_nodes |-> cluster_data.sensor_summary.intrusion_nodes])

\* Variant: a confidence equal to the threshold raises the alert.
IsAlertAtThreshold(prediction, confidence) ==
    prediction # "normal" /\ confidence >= ConfidenceThreshold

\* Whether the classification becomes an alert.
IsAlert(prediction, confidence) ==
    prediction # "normal" /\ confidence > ConfidenceThreshold

\* Variant: the matching loop does not look at the detected flag.
MatchesDetected(intrusion, cluster_x) ==
    Abs(intrusion.position - cluster_x) < MatchTolerance

\* Variant: an intrusion at exactly the tolerance matches (<= for <).
MatchesAtTolerance(intrusion, cluster_x) ==
    /\ ~intrusion.detected
    /\ Abs(intrusion.position - cluster_x) <= MatchTolerance

\* Variant: every undetected intrusion matches, wherever it is.
MatchesAnywhere(intrusion, cluster_x) == ~intrusion.detected

\* The condition of the matching loop for one intrusion.
Matches(intrusion, cluster_x) ==
    /\ ~intrusion.detected
    /\ Abs(intrusion.position - cluster_x) < MatchTolerance

\* Variant: the loop stops after its first turn, whether or not the first
\* intrusion of the list matches.
HeadMatch(intrusions, cluster_x) ==
    IF intrusions # <<>> /\ Matches(intrusions[1], cluster_x) THEN 1 ELSE 0

\* Variant: the loop keeps going and marks the last intrusion that matches.
LastMatch(intrusions, cluster_x) ==
    LET hits == {j \in Indices(intrusions) : Matches(intrusions[j], cluster_x)}
    IN IF hits = {} THEN 0 ELSE MaxOf(hits)

\* The intrusion the matching loop marks (0: none): the first that matches.
FirstMatch(intrusions, cluster_x) ==
    LET hits == {j \in Indices(intrusions) : Matches(intrusions[j], cluster_x)}
    IN IF hits = {} THEN 0 ELSE MinOf(hits)

\* The number of non-normal predictions the heads have logged.
PositiveCount(heads) ==
    SumSeq([k \in Indices(heads) |->
               Len(SelectSeq(heads[k].prediction_history,
                             LAMBDA e : e.prediction # "normal"))])

\* What the classifier may answer: a pair of a label and a confidence.
\* The confidences are at and above the threshold.
ClassifierOutputs ==
    {<<"normal", 99>>, <<"human", 95>>, <<"human", 96>>}

\* The outcome of a failing classifier call.
ClassifierError == <<"error", 0>>

\* A classifier that stays quiet or reports a human with confidence 0.99.
QuietOrHuman == {<<"normal", 99>>, <<"human", 99>>}

\* A classifier that fails or reports a human with confidence 0.99.
FailingOrHuman == {ClassifierError, <<"human", 99>>}

\* Variant: the failure is handed on as it is.
AnalyzeIntrusionUncaught(raw) == raw

\* AIGateway.analyze_intrusion, from what the classifier does: its
\* answer, or ('normal', 0.0) when the call raises.
AnalyzeIntrusion(raw) ==
    IF raw = ClassifierError THEN <<"normal", 0>> ELSE raw

\* The cap on the non-normal answers applies when the classifier may also
\* answer normal.
WithinBudget(outputs, heads, prediction) ==
    (/\ prediction # "normal"
     /\ \E o \in outputs : AnalyzeIntrusion(o)[1] = "normal")
    => PositiveCount(heads) < MaxPositives

\* One turn of the loop over the cluster heads of _process_cluster_data.
\* outputs: what the classifier may do for the snapshot.
ProcessClusterHead(outputs) ==
    /\ pc = "process"
    /\ ch_index <= Len(cluster_heads)
    /\ LET k == ch_index
           got == CollectClusterData(k, sensor_nodes, cluster_heads)
       IN /\ sensor_nodes' = got.nodes
          /\ IF ~got.produced
             THEN /\ cluster_heads' = got.heads
                  /\ UNCHANGED <<intrusion_alerts, current_intrusions,
                                 performance_metrics>>
             ELSE \E raw \in outputs :
                    LET out == AnalyzeIntrusion(raw)
                        prediction == out[1]
                        confidence == out[2]
                        j == FirstMatch(current_intrusions,
                                        got.data.cluster_position)
                    IN /\ WithinBudget(outputs, cluster_heads, prediction)
                       /\ cluster_heads' =
                              [got.heads EXCEPT ![k] =
                                  UpdatePredictionHistory(@, prediction,
                                                          confidence)]
                       /\ IF IsAlert(prediction, confidence)
                          THEN /\ intrusion_alerts' =
                                      GenerateAlert(intrusion_alerts,
                                                    prediction, confidence,
                                                    got.data)
                               /\ IF j # 0
                                  THEN /\ current_intrusions' =
                                              [current_intrusions EXCEPT
                                                  ![j].detected = TRUE]
                                       /\ performance_metrics' =
                                              [performance_metrics EXCEPT
                                                  !.detected_intrusions = @ + 1,
                                                  !.response_times =
                                                      Append(@,
                                                          simulation_time
                                                          - current_intrusions[j]
                                                                .start_time)]
                                  ELSE UNCHANGED <<current_intrusions,
                                                   performance_metrics>>
                          ELSE UNCHANGED <<intrusion_alerts,
                                           current_intrusions,
                                           performance_metrics>>
    /\ ch_index' = ch_index + 1
    /\ UNCHANGED <<simulation_time, cycle_count, sensor_data_stream,
                   camera_data_stream, pc,
                   final_reports>>

----------------------------------------------------------------------------
(* _update_energy_consumption *)

\* any(node.sensor_readings.values())
AnyReading(readings) ==
    \/ readings.pir # 0
    \/ readings.vibration # 0
    \/ readings.thermal # 0
    \/ readings.acoustic # 0
    \/ readings.signal_strength # 0
    \/ readings.intrusion_detected

Consumption(node) ==
    BaseConsumption
    + (IF AnyReading(node.sensor_readings) THEN SensingConsumption ELSE 0)
    + (IF node.has_camera /\ node.camera_module.status = "RECORDING"
       THEN CameraConsumption ELSE 0)

\* node.battery = max(0, node.battery - consumption)
Drained(battery, consumption) == Max2(0, battery - consumption)

\* Variant: the recharge is not capped.
RechargedUncapped(battery) == battery + SolarRechargeAmount * Milli

\* node.battery = min(100, node.battery + recharge)
Recharged(battery) == Min2(100 * Milli, battery + SolarRechargeAmount * Milli)

\* The body of the loop of _update_energy_consumption; recharge: the
\* outcome of random.random() < solar_recharge_prob.
EnergyUpdated(node, recharge) ==
    IF ~node.is_active THEN node
    ELSE LET drained == Drained(node.battery, Consumption(node))
         IN [node EXCEPT !.battery =
                IF recharge THEN Recharged(drained) ELSE drained]

\* recharges: the outcomes the recharge draw of a node may take.
EnergyUpdate(recharges) ==
    \E rc \in [Indices(sensor_nodes) -> recharges] :
        sensor_nodes' = [i \in Indices(sensor_nodes) |->
                            EnergyUpdated(sensor_nodes[i], rc[i])]

\* The energy update of a cycle, after the last cluster head.
UpdateEnergyConsumption(recharges) ==
    /\ pc = "process"
    /\ ch_index > Len(cluster_heads)
    /\ EnergyUpdate(recharges)
    /\ pc' = "finish"
    /\ UNCHANGED <<cluster_heads, current_intrusions, simulation_time,
                   cycle_count, performance_metrics, intrusion_alerts,
                   sensor_data_stream, camera_data_stream, ch_index,
                   final_reports>>

\* The end of run_realtime_cycle: the display is refreshed (it only reads
\* the state) and the clock advances.
FinishCycle ==
    /\ pc = "finish"
    /\ simulation_time' = simulation_time + CycleDuration
    /\ pc' = "ready"
    /\ UNCHANGED <<sensor_nodes, cluster_heads, current_intrusions,
                   cycle_count, performance_metrics, intrusion_alerts,
                   sensor_data_stream, camera_data_stream, ch_index,
                   final_reports>>

----------------------------------------------------------------------------
(* run_perfect_simulation: the end of the run *)

\* Variant: the detection rate is the quotient whatever the total.
GetSystemHealthReportUnguarded(metrics, alerts) ==
    [detection_rate |->
         <<metrics.detected_intrusions, metrics.total_intrusions>>,
     total_alerts |-> Len(alerts),
     intrusions_detected |->
         <<metrics.detected_intrusions, metrics.total_intrusions>>]

\* The performance part of get_system_health_report.  The quotient
\* detected_intrusions / total_intrusions is kept as the pair of its
\* numerator and denominator; 0.0 is <<0, 1>>.
GetSystemHealthReport(metrics, alerts) ==
    [detection_rate |->
         IF metrics.total_intrusions > 0
         THEN <<metrics.detected_intrusions, metrics.total_intrusions>>
         ELSE <<0, 1>>,
     total_alerts |-> Len(alerts),
     intrusions_detected |->
         <<metrics.detected_intrusions, metrics.total_intrusions>>]

\* The figures _display_perfect_report prints, from the counters and the
\* health report as they stand.
PerfectReport ==
    [simulation_time |-> simulation_time,
     detection_rate |->
         GetSystemHealthReport(performance_metrics,
                               intrusion_alerts).detection_rate,
     total_cycles |-> cycle_count,
     intrusions_detected |-> performance_metrics.detected_intrusions,
     total_intrusions |-> performance_metrics.total_intrusions,
     response_times |-> Len(performance_metrics.response_times),
     total_alerts |-> Len(intrusion_alerts)]

\* The loop over the cycles is exhausted and the report is displayed.
DisplayPerfectReport ==
    /\ pc = "ready"
    /\ cycle_count = MaxCycles
    /\ final_reports' = Append(final_reports, PerfectReport)
    /\ pc' = "done"
    /\ UNCHANGED <<sensor_nodes, cluster_heads, current_intrusions,
                   simulation_time, cycle_count, performance_metrics,
                   intrusion_alerts, sensor_data_stream, camera_data_stream,
                   ch_index>>


\* The turn of a cluster head in which send_gsm_notification raises: the
\* snapshot is buffered, the prediction logged and the alert appended; the
\* exception leaves generate_alert, _process_cluster_data and
\* run_realtime_cycle and reaches the handler of run_perfect_simulation,
\* which displays the report.
NotificationFailure(outputs) ==
    /\ pc = "process"
    /\ ch_index <= Len(cluster_heads)
    /\ LET k == ch_index
           got == CollectClusterData(k, sensor_nodes, cluster_heads)
       IN /\ got.produced
          /\ \E raw \in outputs :
                LET out == AnalyzeIntrusion(raw)
                    alerts == GenerateAlert(intrusion_alerts, out[1], out[2],
                                            got.data)
                IN /\ IsAlert(out[1], out[2])
                   /\ sensor_nodes' = got.nodes
                   /\ cluster_heads' =
                          [got.heads EXCEPT ![k] =
                              UpdatePredictionHistory(@, out[1], out[2])]
                   /\ intrusion_alerts' = alerts
                   /\ final_reports' =
                          Append(final_reports,
                                 [PerfectReport EXCEPT
                                     !.total_alerts = Len(alerts)])
    /\ pc' = "done"
    /\ UNCHANGED <<current_intrusions, simulation_time, cycle_count,
                   performance_metrics, sensor_data_stream,
                   camera_data_stream, ch_index>>

\* Variant: the handlers also cover what follows the report.
InTryBlockAlways(phase) == TRUE

\* Whether the run is inside the try block of run_perfect_simulation: the
\* loop over the cycles and the report that follows it.
InTryBlock(phase) == phase # "done"

\* The user interrupts the run between two steps: the handler displays
\* the report.
KeyboardInterrupt ==
    /\ InTryBlock(pc)
    /\ final_reports' = Append(final_reports, PerfectReport)
    /\ pc' = "done"
    /\ UNCHANGED <<sensor_nodes, cluster_heads, current_intrusions,
                   simulation_time, cycle_count, performance_metrics,
                   intrusion_alerts, sensor_data_stream, camera_data_stream,
                   ch_index>>

----------------------------------------------------------------------------
(* The position in the run *)

Phases == {"ready", "intrusions", "collect", "process", "finish", "done"}

\* The run is not over and its position changes.
Advance ==
    /\ pc # "done"
    /\ pc' \in Phases
    /\ ch_index' \in 0..(Len(cluster_heads) + 1)
    /\ <<pc', ch_index'>> # <<pc, ch_index>>

----------------------------------------------------------------------------
(* Specifications *)

\* Detection: humans and vehicles cross near the second cluster head and
\* the classifier either stays quiet or raises a human alert.  No fault
\* strikes and no recharge draw succeeds.
Next ==
    \/ FaultPass({"none"}, {FALSE})
    \/ SimulateIntrusions(HumanOrVehicleCrossing)
    \/ CollectRealTimeData
    \/ ProcessClusterHead(QuietOrHuman)
    \/ UpdateEnergyConsumption({FALSE})
    \/ FinishCycle

Spec == Init /\ [][Next]_vars

\* The configured network: sensor_nodes of config.py on the line of the
\* cluster heads, with the crossings and the answers of Next.
InitConfigured ==
    Constructed(ConfiguredNodes, [i \in 1..ConfiguredNodes |-> HeadY],
                [i \in 1..ConfiguredNodes |-> InitialBatteryMax * Milli])

SpecConfigured == InitConfigured /\ [][Next]_vars

\* Classification: one kind of intrusion, every answer of the classifier.
NextClassifier ==
    \/ FaultPass({"none"}, {FALSE})
    \/ SimulateIntrusions(SpawnDraws({"human"}, {450}))
    \/ CollectRealTimeData
    \/ ProcessClusterHead(ClassifierOutputs)
    \/ UpdateEnergyConsumption({FALSE})
    \/ FinishCycle

SpecClassifier == Init /\ [][NextClassifier]_vars

\* Synthesis: every type at every sampled position, over the deployments
\* whose nodes share one offset across the border; the classifier stays
\* quiet.
InitSynthesis ==
    \E y \in YOffsets :
        Constructed(TotalNodes, [i \in 1..TotalNodes |-> y],
                    [i \in 1..TotalNodes |-> InitialBatteryMax * Milli])

NextSynthesis ==
    \/ FaultPass({"none"}, {FALSE})
    \/ SimulateIntrusions(SpawnDraws(IntrusionTypes, IntrusionPositions))
    \/ CollectRealTimeData
    \/ ProcessClusterHead({<<"normal", 99>>})
    \/ UpdateEnergyConsumption({FALSE})
    \/ FinishCycle

SpecSynthesis == InitSynthesis /\ [][NextSynthesis]_vars

\* Deployment: every placement of the nodes across the border, followed by
\* a run with one kind of intrusion and a quiet classifier.
InitDeploy ==
    \E ys \in [1..TotalNodes -> YOffsets] :
        Constructed(TotalNodes, ys,
                    [i \in 1..TotalNodes |-> InitialBatteryMax * Milli])

NextDeploy ==
    \/ FaultPass({"none"}, {FALSE})
    \/ SimulateIntrusions(SpawnDraws({"vehicle"}, {300}))
    \/ CollectRealTimeData
    \/ ProcessClusterHead({<<"normal", 99>>})
    \/ UpdateEnergyConsumption({FALSE})
    \/ FinishCycle

SpecDeploy == InitDeploy /\ [][NextDeploy]_vars

\* Deployment with every draw of the constructor: the placement across
\* the border and the initial charge of each node; a quiet run follows.
InitRedeploy ==
    \E ys \in [1..TotalNodes -> YOffsets],
       bs \in [1..TotalNodes -> InitialBatteries] :
        Constructed(TotalNodes, ys, bs)

NextRedeploy ==
    \/ FaultPass({"none"}, {FALSE})
    \/ SimulateIntrusions(SpawnsAt(0, {"human"}, {450}))
    \/ CollectRealTimeData
    \/ ProcessClusterHead({<<"normal", 99>>})
    \/ UpdateEnergyConsumption({FALSE})
    \/ FinishCycle
    \/ DisplayPerfectReport

SpecRedeploy == InitRedeploy /\ [][NextRedeploy]_vars

\* No intrusion: spawn_probability is 0.  The thermal sensor of the first
\* node may fail and the classifier answers as it likes.
NextQuiet ==
    \/ FaultPassAmong(StrikesOnly({1}, {"thermal"}), NoCameraHit)
    \/ SimulateIntrusions(SpawnsAt(0, {"human"}, {450}))
    \/ CollectRealTimeData
    \/ ProcessClusterHead(ClassifierOutputs)
    \/ UpdateEnergyConsumption({FALSE})
    \/ FinishCycle
    \/ DisplayPerfectReport

SpecQuiet == Init /\ [][NextQuiet]_vars

\* The sensor faults of a run in which random.random() < 0.05 holds in the
\* first cycle only, for the first and the third node.
FirstCycleFaults ==
    IF cycle_count = 0
    THEN StrikesOnly({1, 3}, SensorNames)
    ELSE StrikesOnly({}, SensorNames)

\* Transient faults: a sensor of the first or of the third node fails in
\* the first cycle and none afterwards; humans cross near the third node.
NextTransient ==
    \/ FaultPassAmong(FirstCycleFaults, NoCameraHit)
    \/ SimulateIntrusions(SpawnDraws({"human"}, {450}))
    \/ CollectRealTimeData
    \/ ProcessClusterHead({<<"normal", 99>>})
    \/ UpdateEnergyConsumption({FALSE})
    \/ FinishCycle

SpecTransient == Init /\ [][NextTransient]_vars

\* The camera draws of a fault pass: random.random() < 0.005 for a working
\* camera, random.random() < 0.1 for a faulty one, for the nodes that have
\* a camera.
CameraDraws ==
    {ch \in [Indices(sensor_nodes) -> BOOLEAN] :
        \A i \in Indices(sensor_nodes) :
            ch[i] => sensor_nodes[i].has_camera}

\* No sensor fault in the pass.
NoSensorFault == [Indices(sensor_nodes) -> {"none"}]

\* Humans and vehicles at 100 and at 170 units from the camera node: a
\* human at 100 sets its flag without being near, a vehicle at 170 is near
\* without setting its flag.
CameraCrossings == SpawnDraws({"human", "vehicle"}, {330, 400})

\* Cameras: the cameras may fail and recover in every fault pass while
\* humans and vehicles cross near and far; the classifier stays quiet.
NextCamera ==
    \/ FaultPassAmong(NoSensorFault, CameraDraws)
    \/ SimulateIntrusions(CameraCrossings)
    \/ CollectRealTimeData
    \/ ProcessClusterHead({<<"normal", 99>>})
    \/ UpdateEnergyConsumption({FALSE})
    \/ FinishCycle

SpecCamera == Init /\ [][NextCamera]_vars

\* The classifier always answers (human, 0.99); humans cross at the
\* sampled positions.
NextAlwaysHuman ==
    \/ FaultPass({"none"}, {FALSE})
    \/ SimulateIntrusions(SpawnDraws({"human"}, IntrusionPositions))
    \/ CollectRealTimeData
    \/ ProcessClusterHead({<<"human", 99>>})
    \/ UpdateEnergyConsumption({FALSE})
    \/ FinishCycle
    \/ DisplayPerfectReport

SpecAlwaysHuman == Init /\ [][NextAlwaysHuman]_vars

\* Humans near the ends of the border and near the second head.
BorderCrossings == SpawnDraws({"human"}, {100, 450, 900})

\* The classifier always answers (human, 0.99) while humans cross near the
\* ends of the border, 100 units from the outer heads, and near the second
\* head.
NextBorder ==
    \/ FaultPass({"none"}, {FALSE})
    \/ SimulateIntrusions(BorderCrossings)
    \/ CollectRealTimeData
    \/ ProcessClusterHead({<<"human", 99>>})
    \/ UpdateEnergyConsumption({FALSE})
    \/ FinishCycle

SpecBorder == Init /\ [][NextBorder]_vars

\* The ways a run ends: the cycles are exhausted, the user interrupts, or
\* the delivery of an alert raises.
NextEnding ==
    \/ FaultPass({"none"}, {FALSE})
    \/ SimulateIntrusions(SpawnDraws({"human"}, {450}))
    \/ CollectRealTimeData
    \/ ProcessClusterHead(QuietOrHuman)
    \/ NotificationFailure(QuietOrHuman)
    \/ UpdateEnergyConsumption({FALSE})
    \/ FinishCycle
    \/ DisplayPerfectReport
    \/ KeyboardInterrupt

SpecEnding == Init /\ [][NextEnding]_vars

\* As long as the run is not over its position moves on, as above.
FairEnding == SpecEnding /\ WF_<<pc, ch_index>>(Advance)

\* The nodes whose collection may fail: the third one, which carries the
\* camera of the deployment of four.
FailingNodes == {3}

\* Failing calls: the collection of the camera node may raise and the
\* classifier may raise instead of answering.
NextDegraded ==
    \/ FaultPass({"none"}, {FALSE})
    \/ SimulateIntrusions(SpawnDraws({"human"}, {450}))
    \/ CollectRealTimeDataWith(FailuresAmong(FailingNodes))
    \/ ProcessClusterHead(FailingOrHuman)
    \/ UpdateEnergyConsumption({FALSE})
    \/ FinishCycle
    \/ DisplayPerfectReport

SpecDegraded == Init /\ [][NextDegraded]_vars

\* The loop over the cycles and the loops inside a cycle are finite and
\* wait for nothing but the pause between two cycles: as long as the run
\* is not over, its position (the phase, and the cluster head whose turn
\* it is) moves on.
FairDegraded == SpecDegraded /\ WF_<<pc, ch_index>>(Advance)

\* _update_energy_consumption called between cycles, any number of times,
\* on a deployment of one node: the nodes are updated independently.
StandaloneEnergyUpdate ==
    /\ pc = "ready"
    /\ EnergyUpdate(BOOLEAN)
    /\ UNCHANGED <<cluster_heads, current_intrusions, simulation_time,
                   cycle_count, performance_metrics, intrusion_alerts,
                   sensor_data_stream, camera_data_stream, pc, ch_index,
                   final_reports>>

InitEnergy ==
    \E y \in YOffsets, b \in InitialBatteries :
        Constructed(1, [i \in {1} |-> y], [i \in {1} |-> b])

NextEnergy == StandaloneEnergyUpdate

SpecEnergy == InitEnergy /\ [][NextEnergy]_vars

\* The answers of a classifier that reports a vehicle for the first
\* snapshot of the first cluster head and stays quiet or reports a human
\* afterwards.
ArrivingPredictions ==
    IF cluster_heads[1].prediction_history = <<>>
    THEN {<<"vehicle", 99>>}
    ELSE QuietOrHuman

\* update_prediction_history called for the first cluster head between
\* cycles, any number of times, with the answer of the classifier.
StandalonePredictionUpdate(outputs) ==
    /\ pc = "ready"
    /\ \E raw \in outputs :
          LET out == AnalyzeIntrusion(raw)
          IN /\ WithinBudget(outputs, cluster_heads, out[1])
             /\ cluster_heads' =
                    [cluster_heads EXCEPT ![1] =
                        UpdatePredictionHistory(@, out[1], out[2])]
    /\ UNCHANGED <<sensor_nodes, current_intrusions, simulation_time,
                   cycle_count, performance_metrics, intrusion_alerts,
                   sensor_data_stream, camera_data_stream, pc, ch_index,
                   final_reports>>

NextHistory == StandalonePredictionUpdate(ArrivingPredictions)

SpecHistory == Init /\ [][NextHistory]_vars

\* collect_cluster_data of the first cluster head called between cycles,
\* until its data buffer has passed the limit of the streams.
StandaloneClusterCollection ==
    /\ pc = "ready"
    /\ Len(cluster_heads[1].data_buffer) <= StreamLimit
    /\ LET got == CollectClusterData(1, sensor_nodes, cluster_heads)
       IN /\ sensor_nodes' = got.nodes
          /\ cluster_heads' = got.heads
    /\ UNCHANGED <<current_intrusions, simulation_time, cycle_count,
                   performance_metrics, intrusion_alerts, sensor_data_stream,
                   camera_data_stream, pc, ch_index, final_reports>>

\* Retention: quiet cycles, and collections of the first cluster head
\* between them.
NextRetention ==
    \/ FaultPass({"none"}, {FALSE})
    \/ SimulateIntrusions(SpawnsAt(0, {"human"}, {450}))
    \/ CollectRealTimeData
    \/ ProcessClusterHead({<<"normal", 99>>})
    \/ UpdateEnergyConsumption({FALSE})
    \/ FinishCycle
    \/ StandaloneClusterCollection

SpecRetention == Init /\ [][NextRetention]_vars
----------------------------------------------------------------------------
(* Properties of the energy update (SpecEnergy) *)

\* C1: after every energy update, over any number of updates and any
\* outcome of the recharge draws, every sensor node's battery lies in
\* [0, 100] percent.
BatteryWithinBounds ==
    \A i \in Indices(sensor_nodes) :
        /\ sensor_nodes[i].battery >= 0
        /\ sensor_nodes[i].battery <= 100 * Milli

\* A node has been drained down to the lower clamp.
BatteryDrainedToZero ==
    \E i \in Indices(sensor_nodes) : sensor_nodes[i].battery = 0

\* C2: a node whose battery has reached 0 is marked inactive by the end of
\* the cycle (and stays so).
DeadNodeInactive ==
    pc = "ready" =>
        \A i \in Indices(sensor_nodes) :
            sensor_nodes[i].battery = 0 => ~sensor_nodes[i].is_active

----------------------------------------------------------------------------
(* Properties of detection and expiry (Spec) *)

\* An intrusion is known by its start time: a cycle spawns at most one.
StartTimes(intrusions) ==
    {intrusions[j].start_time : j \in Indices(intrusions)}

\* The start times of the intrusions whose detected flag is d.
StartsWithFlag(intrusions, d) ==
    {intrusions[j].start_time :
        j \in {m \in Indices(intrusions) : intrusions[m].detected = d}}

\* The intrusions whose flag goes from false to true in the step.
FlippedInStep ==
    StartsWithFlag(current_intrusions, FALSE)
        \cap StartsWithFlag(current_intrusions', TRUE)

\* C3: the detected flag of an intrusion is never reset, so it goes from
\* false to true at most once; a step flips at most one flag, and
\* detected_intrusions and the list of response times grow by exactly the
\* number of flags flipped.
DetectionFlipsOnce ==
    [][/\ StartsWithFlag(current_intrusions, TRUE)
            \cap StartsWithFlag(current_intrusions', FALSE) = {}
       /\ Cardinality(FlippedInStep) <= 1
       /\ performance_metrics'.detected_intrusions
            = performance_metrics.detected_intrusions
              + Cardinality(FlippedInStep)
       /\ Len(performance_metrics'.response_times)
            = Len(performance_metrics.response_times)
              + Cardinality(FlippedInStep)]_vars

\* The intrusion of the first cycle was detected by the second head, and
\* the same head raised a second alert while it was still there.
DetectedThenAlertedAgain ==
    /\ Len(intrusion_alerts) = 2
    /\ \A a \in Indices(intrusion_alerts) : intrusion_alerts[a].cluster_id = 2
    /\ Len(current_intrusions) = 1
    /\ current_intrusions[1].start_time = 0
    /\ current_intrusions[1].detected
    /\ performance_metrics.detected_intrusions = 1

\* C4: the expiry pass removes an intrusion if and only if
\* simulation_time - start_time >= duration, whatever its detected flag;
\* no other step removes one; every intrusion that synthesis, aggregation
\* and matching see satisfies simulation_time - start_time < duration.
ExpiryExact ==
    [][/\ pc = "intrusions" =>
            \A j \in Indices(current_intrusions) :
                (current_intrusions[j].start_time
                    \in StartTimes(current_intrusions'))
                <=> (simulation_time - current_intrusions[j].start_time
                        < current_intrusions[j].duration)
       /\ pc # "intrusions" =>
            StartTimes(current_intrusions') = StartTimes(current_intrusions)
       /\ pc' \in {"collect", "process"} =>
            \A j \in Indices(current_intrusions') :
                simulation_time' - current_intrusions'[j].start_time
                    < current_intrusions'[j].duration]_vars

\* The expiry pass of the second cycle has removed a detected intrusion.
DetectedIntrusionExpired ==
    /\ pc = "collect"
    /\ cycle_count = 2
    /\ performance_metrics.total_intrusions = 1
    /\ performance_metrics.detected_intrusions = 1
    /\ current_intrusions = <<>>

\* C5: the intrusion an alert marks detected has the type the alert
\* names.
AlertMarksSameType ==
    [][\A j \in Indices(current_intrusions) :
          (/\ pc = "process"
           /\ Len(intrusion_alerts') = Len(intrusion_alerts) + 1
           /\ ~current_intrusions[j].detected
           /\ current_intrusions'[j].detected)
          => current_intrusions[j].type
               = intrusion_alerts'[Len(intrusion_alerts')].intrusion_type]_vars

----------------------------------------------------------------------------
(* Properties of the alert decision (SpecClassifier) *)

\* The alerts of the log raised for cluster head k.
AlertsOf(alerts, k) ==
    {a \in Indices(alerts) : alerts[a].cluster_id = k}

\* C6: a turn of the loop of _process_cluster_data appends an alert for
\* its snapshot if and only if the label is not 'normal' and the
\* confidence is strictly greater than the threshold (equal: no alert); no
\* other step appends one; a head has at most one alert per cycle.
AlertIffAboveThreshold ==
    [][/\ (pc = "process" /\ ch_index <= Len(cluster_heads)) =>
            LET k == ch_index
                produced == Len(cluster_heads'[k].data_buffer)
                              > Len(cluster_heads[k].data_buffer)
                history == cluster_heads'[k].prediction_history
                last == history[Len(history)]
            IN /\ produced =>
                    Len(history)
                      = Len(cluster_heads[k].prediction_history) + 1
               /\ IF /\ produced
                     /\ last.prediction # "normal"
                     /\ last.confidence > ConfidenceThreshold
                  THEN /\ Len(intrusion_alerts') = Len(intrusion_alerts) + 1
                       /\ SubSeq(intrusion_alerts', 1, Len(intrusion_alerts))
                            = intrusion_alerts
                       /\ intrusion_alerts'[Len(intrusion_alerts')].cluster_id
                            = k
                       /\ intrusion_alerts'[Len(intrusion_alerts')]
                              .intrusion_type = last.prediction
                  ELSE intrusion_alerts' = intrusion_alerts
       /\ ~(pc = "process" /\ ch_index <= Len(cluster_heads)) =>
            intrusion_alerts' = intrusion_alerts
       /\ \A k \in Indices(cluster_heads) :
            Cardinality(AlertsOf(intrusion_alerts', k)) <= cycle_count']_vars

\* One head was answered a label at the threshold and raised nothing,
\* another was answered a label above it and raised the only alert.
ThresholdAnswerRaisedNothing ==
    /\ Len(intrusion_alerts) = 1
    /\ \E k \in Indices(cluster_heads) :
          /\ AlertsOf(intrusion_alerts, k) = {}
          /\ \E e \in Indices(cluster_heads[k].prediction_history) :
                /\ cluster_heads[k].prediction_history[e].prediction = "human"
                /\ cluster_heads[k].prediction_history[e].confidence
                      = ConfidenceThreshold

----------------------------------------------------------------------------
(* Properties of the deployment (SpecDeploy) *)

\* The heads whose cluster_members list holds node i.
HeadsListing(heads, i) ==
    {k \in Indices(heads) :
        \E m \in Indices(heads[k].cluster_members) :
            heads[k].cluster_members[m] = i}

\* Each node is in the list of at most one head and its cluster_head_id
\* names that head, or None (0) when it is in no list.
MembershipConsistent(nodes, heads) ==
    \A i \in Indices(nodes) :
        /\ Cardinality(HeadsListing(heads, i)) <= 1
        /\ \A k \in HeadsListing(heads, i) :
              /\ nodes[i].cluster_head_id = k
              /\ Len(SelectSeq(heads[k].cluster_members,
                               LAMBDA m : m = i)) = 1
        /\ HeadsListing(heads, i) = {} => nodes[i].cluster_head_id = 0

\* C7: after deployment and in every later state each node is in the
\* cluster_members of at most one head, which its cluster_head_id names
\* (None when in no list); no step changes the membership.
MembershipFixed ==
    [][/\ MembershipConsistent(sensor_nodes, cluster_heads)
       /\ MembershipConsistent(sensor_nodes', cluster_heads')
       /\ \A k \in Indices(cluster_heads) :
            cluster_heads'[k].cluster_members
                = cluster_heads[k].cluster_members
       /\ \A i \in Indices(sensor_nodes) :
            sensor_nodes'[i].cluster_head_id
                = sensor_nodes[i].cluster_head_id]_vars

\* A run has ended on a deployment where a node in range of two heads is
\* in the list of one of them and another node is in no list.
MixedDeploymentRan ==
    /\ cycle_count = MaxCycles
    /\ pc = "ready"
    /\ \E i \in Indices(sensor_nodes) :
          /\ Cardinality({k \in Indices(cluster_heads) :
                             IsInRange(cluster_heads[k], sensor_nodes[i])}) = 2
          /\ Cardinality(HeadsListing(cluster_heads, i)) = 1
    /\ \E i \in Indices(sensor_nodes) :
          /\ sensor_nodes[i].cluster_head_id = 0
          /\ HeadsListing(cluster_heads, i) = {}

\* The square of the distance between node i and head k.
NodeHeadDist2(i, k) ==
    Dist2(sensor_nodes[i].x, sensor_nodes[i].y,
          cluster_heads[k].x, cluster_heads[k].y)

\* C8: a node's head is within communication_range, no head is strictly
\* closer, and among the heads at the same distance it is the earliest; a
\* node has no head exactly when every head is farther than
\* communication_range; a node without a head is in no snapshot.
NearestHeadAssigned ==
    \A i \in Indices(sensor_nodes) :
        LET h == sensor_nodes[i].cluster_head_id
        IN /\ h # 0 =>
                /\ h \in Indices(cluster_heads)
                /\ NodeHeadDist2(i, h)
                      <= CommunicationRange * CommunicationRange
                /\ \A k \in Indices(cluster_heads) :
                      /\ NodeHeadDist2(i, k) >= NodeHeadDist2(i, h)
                      /\ NodeHeadDist2(i, k) = NodeHeadDist2(i, h) => k >= h
           /\ h = 0 <=>
                \A k \in Indices(cluster_heads) :
                    NodeHeadDist2(i, k)
                        > CommunicationRange * CommunicationRange
           /\ h = 0 =>
                \A k \in Indices(cluster_heads) :
                    \A b \in Indices(cluster_heads[k].data_buffer) :
                        \A m \in Indices(cluster_heads[k].data_buffer[b]
                                             .active_members) :
                            cluster_heads[k].data_buffer[b].active_members[m]
                                # i

\* Snapshots were taken on a deployment where a node has no head, a node
\* at equal distance of two heads has the earlier one, and a node has the
\* nearer of two heads in range, the later one.
TieAndUnassignedSnapshot ==
    /\ \E k \in Indices(cluster_heads) : cluster_heads[k].data_buffer # <<>>
    /\ \E i \in Indices(sensor_nodes) : sensor_nodes[i].cluster_head_id = 0
    /\ \E i \in Indices(sensor_nodes) :
          \E k \in Indices(cluster_heads) :
              /\ sensor_nodes[i].cluster_head_id # 0
              /\ k > sensor_nodes[i].cluster_head_id
              /\ NodeHeadDist2(i, k)
                    = NodeHeadDist2(i, sensor_nodes[i].cluster_head_id)
    /\ \E i \in Indices(sensor_nodes) :
          \E k \in Indices(cluster_heads) :
              /\ sensor_nodes[i].cluster_head_id > k
              /\ NodeHeadDist2(i, k)
                    <= CommunicationRange * CommunicationRange

----------------------------------------------------------------------------
(* Properties of synthesis and aggregation (SpecSynthesis) *)

\* The active members of head k in communication range, as a set.
MemberSet(k) ==
    {i \in Indices(sensor_nodes) :
        /\ sensor_nodes[i].is_active
        /\ sensor_nodes[i].cluster_head_id = k
        /\ NodeHeadDist2(i, k) <= CommunicationRange * CommunicationRange}

\* The heads the loop of _process_cluster_data has passed in this cycle.
HeadsDone ==
    IF pc = "process"
    THEN {k \in Indices(cluster_heads) : k < ch_index}
    ELSE {}

\* The snapshot head k has taken in this cycle (a head with members takes
\* one in every cycle).
SnapshotOf(k) == cluster_heads[k].data_buffer[cycle_count]

\* The nodes a snapshot lists.
ListedIn(snapshot) ==
    {snapshot.active_members[m] : m \in Indices(snapshot.active_members)}

\* C9: the snapshot a head takes in a cycle has total_motion equal to the
\* sum of the pir flags (0 or 1) of its active members in range as they
\* stand after the synthesis of the cycle, and total_nodes equal to their
\* number; a head without such members takes none; no node is listed in
\* the snapshots of two heads.
SnapshotCountsMembers ==
    /\ \A k \in HeadsDone :
          IF MemberSet(k) = {}
          THEN Len(cluster_heads[k].data_buffer) = 0
          ELSE /\ Len(cluster_heads[k].data_buffer) = cycle_count
               /\ ListedIn(SnapshotOf(k)) = MemberSet(k)
               /\ SnapshotOf(k).total_nodes = Cardinality(MemberSet(k))
               /\ \A i \in MemberSet(k) :
                     sensor_nodes[i].sensor_readings.pir \in {0, 1}
               /\ SnapshotOf(k).sensor_summary.total_motion
                     = Cardinality({i \in MemberSet(k) :
                           sensor_nodes[i].sensor_readings.pir = 1})
    /\ \A k1, k2 \in HeadsDone :
          (k1 # k2 /\ MemberSet(k1) # {} /\ MemberSet(k2) # {}) =>
              ListedIn(SnapshotOf(k1)) \cap ListedIn(SnapshotOf(k2)) = {}

\* The first head has taken a snapshot of two members of which one
\* reports motion, and the second head has taken its own.
PartialMotionSnapshot ==
    /\ {1, 2} \subseteq HeadsDone
    /\ Cardinality(MemberSet(1)) = 2
    /\ SnapshotOf(1).sensor_summary.total_motion = 1
    /\ MemberSet(2) # {}

\* |x - p| <= 1.05 * sensor_range for node i and intrusion j
InActivationRadius(i, j) ==
    /\ sensor_nodes[i].is_active
    /\ Abs(sensor_nodes[i].x - current_intrusions[j].position) * 100
          <= 105 * SensorRange

\* Node i reports the readings of the claim, and the snapshot of its head,
\* once taken, has the maximum temperature of the claim.
ReportsVehicle(i) ==
    /\ sensor_nodes[i].sensor_readings.vibration >= 8
    /\ sensor_nodes[i].sensor_readings.thermal >= 50
    /\ \A k \in HeadsDone :
          i \in MemberSet(k) =>
              SnapshotOf(k).sensor_summary.max_temperature >= 50

\* C10 as stated: in a cycle with an active vehicle intrusion, after the
\* synthesis every active node in its activation radius reports
\* vibration >= 0.8 and thermal >= 50, and the snapshot of a head with
\* such a member has max_temperature >= 50.
VehicleForcesReadings ==
    pc = "process" =>
        \A j \in Indices(current_intrusions) :
            current_intrusions[j].type = "vehicle" =>
                \A i \in Indices(sensor_nodes) :
                    InActivationRadius(i, j) => ReportsVehicle(i)

\* C10, amended: the same, for the nodes that no intrusion of another
\* type, later in current_intrusions, holds in its activation radius.
LastVehicleForcesReadings ==
    pc = "process" =>
        \A j \in Indices(current_intrusions) :
            current_intrusions[j].type = "vehicle" =>
                \A i \in Indices(sensor_nodes) :
                    (/\ InActivationRadius(i, j)
                     /\ \A l \in Indices(current_intrusions) :
                           (l > j /\ InActivationRadius(i, l))
                               => current_intrusions[l].type = "vehicle")
                    => ReportsVehicle(i)

\* A human and then a vehicle hold a member of the second head in their
\* radius, and the head has taken its snapshot.
VehicleAfterHumanSnapshot ==
    /\ 2 \in HeadsDone
    /\ Len(current_intrusions) = 2
    /\ current_intrusions[1].type = "human"
    /\ current_intrusions[2].type = "vehicle"
    /\ \E i \in MemberSet(2) :
          InActivationRadius(i, 1) /\ InActivationRadius(i, 2)

----------------------------------------------------------------------------
(* Properties of a run without intrusions (SpecQuiet) *)

\* The answers above the threshold the heads have logged.
AlertingAnswers ==
    SumSeq([k \in Indices(cluster_heads) |->
               Len(SelectSeq(cluster_heads[k].prediction_history,
                             LAMBDA e : /\ e.prediction # "normal"
                                        /\ e.confidence
                                              > ConfidenceThreshold))])

----------------------------------------------------------------------------
(* Properties under a classifier that always alerts (SpecAlwaysHuman) *)

\* The snapshot of head k is taken in the step.
SnapshotTaken(k) ==
    /\ pc = "process"
    /\ k = ch_index
    /\ Len(cluster_heads'[k].data_buffer) > Len(cluster_heads[k].data_buffer)

\* The intrusions within the spatial tolerance of head k.
WithinTolerance(k) ==
    {j \in Indices(current_intrusions) :
        Abs(current_intrusions[j].position - cluster_heads[k].x) < 100}

\* The intrusions that go from undetected to detected in the step.
NewlyDetected ==
    {j \in Indices(current_intrusions) :
        ~current_intrusions[j].detected /\ current_intrusions'[j].detected}

\* C12 as stated: every snapshot taken while an active human intrusion
\* lies within the tolerance of the head results in exactly one alert and
\* in exactly one intrusion going from undetected to detected.
EverySnapshotDetects ==
    [][\A k \in Indices(cluster_heads) :
          (/\ SnapshotTaken(k)
           /\ \E j \in WithinTolerance(k) :
                 current_intrusions[j].type = "human")
          => /\ Len(intrusion_alerts') = Len(intrusion_alerts) + 1
             /\ Cardinality(NewlyDetected) = 1]_vars

\* C12, amended: every snapshot results in exactly one alert; it turns
\* exactly one intrusion detected, the first undetected one within the
\* tolerance, when there is one, and none when every intrusion within the
\* tolerance is already detected.
EverySnapshotAlerts ==
    [][\A k \in Indices(cluster_heads) :
          SnapshotTaken(k) =>
              LET open == {j \in WithinTolerance(k) :
                              ~current_intrusions[j].detected}
              IN /\ Len(intrusion_alerts') = Len(intrusion_alerts) + 1
                 /\ NewlyDetected
                      = IF open = {} THEN {} ELSE {MinOf(open)}]_vars

\* The second head has alerted in both cycles while the human of the first
\* cycle, within its tolerance and still active, was detected only once.
AlertedTwiceDetectedOnce ==
    /\ pc = "process"
    /\ ch_index > 2
    /\ cycle_count = 2
    /\ Len(current_intrusions) = 1
    /\ current_intrusions[1].start_time = 0
    /\ current_intrusions[1].position = 450
    /\ current_intrusions[1].detected
    /\ performance_metrics.detected_intrusions = 1
    /\ Cardinality(AlertsOf(intrusion_alerts, 2)) = 2

----------------------------------------------------------------------------
(* Two deployments compared (SpecRedeploy) *)

\* The membership of a network: the member list of every head and the
\* cluster_head_id of every node.
MembershipOf(nodes, heads) ==
    [lists |-> [k \in Indices(heads) |-> heads[k].cluster_members],
     ids |-> [i \in Indices(nodes) |-> nodes[i].cluster_head_id]]

\* The nodes at the same in-range distance from two heads.
Equidistant(nodes, heads) ==
    {i \in Indices(nodes) :
        \E k, l \in Indices(heads) :
            /\ k # l
            /\ IsInRange(heads[k], nodes[i])
            /\ Dist2(nodes[i].x, nodes[i].y, heads[k].x, heads[k].y)
                = Dist2(nodes[i].x, nodes[i].y, heads[l].x, heads[l].y)}

----------------------------------------------------------------------------
(* Properties of the end of the run (SpecEnding) *)

\* C14 as stated: whether or not its notification is delivered, the turn
\* that creates an alert does not end the cycle: the loop moves on to the
\* next cluster head and the matching intrusion is marked detected (the
\* energy update and the advance of the clock come after the loop).
AlertKeepsCycleGoing ==
    [][(pc = "process" /\ Len(intrusion_alerts') > Len(intrusion_alerts))
       => /\ pc' = "process"
          /\ ch_index' = ch_index + 1
          /\ LET j == FirstMatch(current_intrusions,
                                 cluster_heads[ch_index].x)
             IN j # 0 => current_intrusions'[j].detected]_vars

----------------------------------------------------------------------------
(* Properties under failing calls (SpecDegraded, FairDegraded) *)

\* The labels analyze_intrusion returns.
PredictionLabels == {"normal", "human", "animal", "vehicle"}

\* The entry the turn of head k adds to its prediction history.
LoggedPrediction(k) ==
    cluster_heads'[k].prediction_history[
        Len(cluster_heads'[k].prediction_history)]

\* C15: every snapshot gets a result with a label of the classifier; when
\* the classifier call fails the result is (normal, 0.0), no alert is
\* created, no intrusion is marked detected and the loop moves on to the
\* next cluster head.
ClassifierFailureDegrades ==
    [][\A k \in Indices(cluster_heads) :
          SnapshotTaken(k) =>
              /\ LoggedPrediction(k).prediction \in PredictionLabels
              /\ LoggedPrediction(k).confidence = 0 =>
                    /\ LoggedPrediction(k).prediction = "normal"
                    /\ intrusion_alerts' = intrusion_alerts
                    /\ current_intrusions' = current_intrusions
                    /\ performance_metrics' = performance_metrics
                    /\ pc' = "process"
                    /\ ch_index' = ch_index + 1]_vars

\* Every head has had its turn in a cycle where the classifier failed for
\* the second head while an undetected human was within its tolerance.
FailedClassificationPassed ==
    /\ pc = "process"
    /\ ch_index = Len(cluster_heads) + 1
    /\ cluster_heads[2].prediction_history # <<>>
    /\ cluster_heads[2].prediction_history[
           Len(cluster_heads[2].prediction_history)]
           = [prediction |-> "normal", confidence |-> 0]
    /\ \E j \in Indices(current_intrusions) :
          /\ ~current_intrusions[j].detected
          /\ Abs(current_intrusions[j].position - cluster_heads[2].x) < 100
    /\ cluster_heads[4].prediction_history # <<>>

\* C16: whatever fails in the collection of a node or in a classification,
\* the collection reads every other node and the run reaches the end of
\* its loop with cycle_count at the configured total.
AllCyclesRun ==
    /\ <>(pc = "done" /\ cycle_count = MaxCycles)
    /\ [](pc = "done" => cycle_count = MaxCycles)
    /\ [][pc = "collect" =>
            \A i \in Indices(sensor_nodes) \ FailingNodes :
                sensor_nodes[i].is_active =>
                    Len(sensor_nodes'[i].thermal_history)
                        = Len(sensor_nodes[i].thermal_history) + 1]_vars

\* The run is over; the camera node was skipped in some collection (it has
\* been read less often than the first node, a member like it) and the
\* classifier failed for the last snapshot of the second head.
RunOverDespiteFailures ==
    /\ pc = "done"
    /\ cycle_count = MaxCycles
    /\ \E i \in FailingNodes :
          /\ sensor_nodes[i].cluster_head_id # 0
          /\ sensor_nodes[1].cluster_head_id # 0
          /\ Len(sensor_nodes[i].thermal_history)
                < Len(sensor_nodes[1].thermal_history)
    /\ cluster_heads[2].prediction_history[
           Len(cluster_heads[2].prediction_history)].confidence = 0

----------------------------------------------------------------------------
(* The final report (FairEnding) *)

\* C17: every run comes to its end, and it has displayed a final report
\* exactly when it is over, one and no more: at the step that ends it,
\* which is the exhaustion of the loop over the cycles, the interruption
\* or the error; the report holds the counters as they stand then.
RunReportsOnce ==
    /\ <>(pc = "done" /\ Len(final_reports) = 1)
    /\ [](Len(final_reports) = IF pc = "done" THEN 1 ELSE 0)
    /\ [](pc = "done" => final_reports[1] = PerfectReport)

\* A run stopped in its first cycle, after an alert and before the clock
\* advanced, has displayed its report.
RunCutShortReported ==
    /\ pc = "done"
    /\ cycle_count = 1
    /\ simulation_time = 0
    /\ Len(final_reports) = 1
    /\ final_reports[1].total_cycles = 1
    /\ final_reports[1].total_alerts = 1

----------------------------------------------------------------------------
(* The order of the phases of a cycle (Spec) *)

\* The intrusions without their detected flags.
Crossings(intrusions) ==
    [j \in Indices(intrusions) |->
        [type |-> intrusions[j].type, position |-> intrusions[j].position,
         start_time |-> intrusions[j].start_time]]

\* The heads that take a snapshot in every cycle.
Reporting == {k \in Indices(cluster_heads) : MemberSet(k) # {}}

----------------------------------------------------------------------------
(* The flags and the readings after the synthesis (SpecSynthesis) *)

\* The nodes within the activation radius of an active intrusion.
CoveredNodes ==
    {i \in Indices(sensor_nodes) :
        \E j \in Indices(current_intrusions) : InActivationRadius(i, j)}

\* The synthesis of the cycle is over and the cycle is not.
AfterSynthesis == pc \in {"process", "finish"}

\* C19: from the synthesis to the end of the cycle the intrusion_detected
\* flag of a node is set exactly when the node is active and within the
\* activation radius of an active intrusion, whatever the flag was in the
\* cycle before.
FlagIffCovered ==
    AfterSynthesis =>
        \A i \in Indices(sensor_nodes) :
            sensor_nodes[i].sensor_readings.intrusion_detected
                <=> (sensor_nodes[i].is_active /\ i \in CoveredNodes)

\* In the second cycle a node whose readings still show the intrusion of
\* the first cycle, which has expired, has its flag down, while another
\* intrusion holds the flag of another node up.
FlagDroppedAfterExpiry ==
    /\ AfterSynthesis
    /\ cycle_count = 2
    /\ \E i \in Indices(sensor_nodes) :
          /\ i \notin CoveredNodes
          /\ sensor_nodes[i].sensor_readings.pir = 1
          /\ ~sensor_nodes[i].sensor_readings.intrusion_detected
    /\ \E i \in CoveredNodes :
          sensor_nodes[i].sensor_readings.intrusion_detected

\* C20 as stated: after the synthesis a node outside the activation
\* radius of every active intrusion shows the ambient baseline: vibration
\* and acoustic near zero (at most 0.2 and 0.3, the levels of a quiet
\* border) and the ambient temperature (at most 26), also when an
\* intrusion that has expired covered it in an earlier cycle.
BaselineOutsideRadius ==
    AfterSynthesis =>
        \A i \in Indices(sensor_nodes) \ CoveredNodes :
            /\ sensor_nodes[i].sensor_readings.vibration <= 2
            /\ sensor_nodes[i].sensor_readings.acoustic <= 3
            /\ sensor_nodes[i].sensor_readings.thermal <= 26

\* The pattern of the claim for an intrusion type: motion, thermal,
\* vibration and acoustic (the last two in tenths).
CanonicalPattern(intrusion_type) ==
    CASE intrusion_type = "human" ->
           [pir |-> 1, thermal |-> 36, vibration |-> 8, acoustic |-> 9]
      [] intrusion_type = "vehicle" ->
           [pir |-> 1, thermal |-> 55, vibration |-> 10, acoustic |-> 10]
      [] intrusion_type = "animal" ->
           [pir |-> 1, thermal |-> 32, vibration |-> 6, acoustic |-> 7]

\* The motion, thermal, vibration and acoustic readings of node i.
ReadingVector(i) ==
    [pir |-> sensor_nodes[i].sensor_readings.pir,
     thermal |-> sensor_nodes[i].sensor_readings.thermal,
     vibration |-> sensor_nodes[i].sensor_readings.vibration,
     acoustic |-> sensor_nodes[i].sensor_readings.acoustic]

\* The intrusions that hold node i in their activation radius.
CoveringOf(i) ==
    {j \in Indices(current_intrusions) : InActivationRadius(i, j)}

\* C21 as stated: after the synthesis every active node within the
\* activation radius of an active intrusion has the pattern of the type of
\* that intrusion, also when intrusions of several types cover it.
PatternOfEveryCovering ==
    AfterSynthesis =>
        \A i \in Indices(sensor_nodes) :
            \A j \in CoveringOf(i) :
                ReadingVector(i)
                    = CanonicalPattern(current_intrusions[j].type)

\* C21, amended: after the synthesis every active node within the
\* activation radius of an active intrusion has the pattern of the type of
\* the last intrusion of current_intrusions that covers it.
PatternOfLastCovering ==
    AfterSynthesis =>
        \A i \in Indices(sensor_nodes) :
            CoveringOf(i) # {} =>
                ReadingVector(i)
                    = CanonicalPattern(
                          current_intrusions[MaxOf(CoveringOf(i))].type)

\* An animal and then a human cover the same node, which shows the pattern
\* of the human.
TwoTypesCoverOneNode ==
    /\ AfterSynthesis
    /\ \E i \in Indices(sensor_nodes) :
          /\ CoveringOf(i) = {1, 2}
          /\ current_intrusions[1].type = "animal"
          /\ current_intrusions[2].type = "human"
          /\ ReadingVector(i) = CanonicalPattern("human")

\* The values a reading takes without a fault: the initial value or the
\* value an activation writes.
HealthyValues(sensor) ==
    CASE sensor = "pir" -> {0, 1}
      [] sensor = "thermal" -> {AmbientThermal, 32, 36, 55}
      [] sensor = "vibration" -> {0, 6, 8, 10}
      [] sensor = "acoustic" -> {0, 7, 9, 10}

\* C22: a reading a fault of the first cycle forced to zero is back at its
\* baseline or at a canonical value after the synthesis of the second
\* cycle, for the nodes inside and outside the radius of an intrusion.
FaultHealedNextCycle ==
    (cycle_count >= 2 /\ AfterSynthesis) =>
        \A i \in Indices(sensor_nodes) :
            /\ \A sensor \in SensorNames :
                  sensor_nodes[i].sensor_readings[sensor]
                      \in HealthyValues(sensor)
            /\ CoveringOf(i) # {} =>
                  ReadingVector(i)
                      = CanonicalPattern(
                            current_intrusions[MaxOf(CoveringOf(i))].type)

\* Head k is inactive or none of its members is active and in range.
WithoutInput(k) ==
    \/ ~cluster_heads[k].is_active
    \/ ActiveMembers(k, sensor_nodes, cluster_heads) = <<>>

\* C23: the turn of a cluster head that is inactive or has no active member
\* in range changes nothing but the position in the loop: no
\* classification is logged, no alert is created, and the prediction
\* history and the data buffer of every head, the nodes, the intrusions and
\* the counters stay as they are.
NoInputNoSnapshot ==
    [][(/\ pc = "process"
        /\ ch_index \in Indices(cluster_heads)
        /\ WithoutInput(ch_index))
       => /\ pc' = "process"
          /\ ch_index' = ch_index + 1
          /\ UNCHANGED <<cluster_heads, intrusion_alerts, sensor_nodes,
                         current_intrusions, performance_metrics>>]_vars

\* In the second cycle the third head, which has no member, has had its
\* turn after a head that raised an alert, and has logged nothing.
EmptyHeadSkipped ==
    /\ pc = "process"
    /\ ch_index = 4
    /\ cycle_count = 2
    /\ WithoutInput(3)
    /\ cluster_heads[3].data_buffer = <<>>
    /\ cluster_heads[3].prediction_history = <<>>
    /\ cluster_heads[2].prediction_history # <<>>
    /\ intrusion_alerts # <<>>

\* The nodes deployed with a camera.
CameraNodes == {i \in Indices(sensor_nodes) : sensor_nodes[i].has_camera}

\* C24: the camera nodes are at most int(sensor_nodes *
\* camera_node_percentage), and each lies within the tolerance of an anchor
\* of perfect_camera_positions.
CamerasWithinQuota ==
    /\ Cardinality(CameraNodes) <= CameraCount(Len(sensor_nodes))
    /\ \A i \in CameraNodes : NearAnchors(sensor_nodes[i].x) # {}

\* Some reading of the node differs from the value it had at construction.
NonBaseline(readings) ==
    \/ readings.pir # 0
    \/ readings.vibration # 0
    \/ readings.thermal # AmbientThermal
    \/ readings.acoustic # 0

\* The charge of the claim: the base cost, the sensing cost when a reading
\* is off its baseline, the camera cost when the camera records.
ClaimedConsumption(node) ==
    BaseConsumption
    + (IF NonBaseline(node.sensor_readings) THEN SensingConsumption ELSE 0)
    + (IF node.has_camera /\ node.camera_module.status = "RECORDING"
       THEN CameraConsumption ELSE 0)

\* C25: in an energy update without recharge an active node is charged the
\* base cost, plus the sensing cost only when some reading is off its
\* baseline, plus the camera cost only when its camera records; an inactive
\* node keeps its battery.
ChargedByActivity ==
    [][(pc = "process" /\ pc' = "finish")
       => \A i \in Indices(sensor_nodes) :
              sensor_nodes'[i].battery =
                  IF sensor_nodes[i].is_active
                  THEN Max2(0, sensor_nodes[i].battery
                                   - ClaimedConsumption(sensor_nodes[i]))
                  ELSE sensor_nodes[i].battery]_vars

\* C26: the prediction history of a head never holds more than 20 entries,
\* and an arrival leaves the earlier entries in their order followed by the
\* new one, without the oldest when the history was full.
HistoryKeepsRecent ==
    [][\A k \in Indices(cluster_heads) :
          LET before == cluster_heads[k].prediction_history
              after == cluster_heads'[k].prediction_history
          IN /\ Len(after) <= MaxPredictionHistory
             /\ after # before =>
                   after = Append(IF Len(before) < MaxPredictionHistory
                                  THEN before ELSE Tail(before),
                                  after[Len(after)])]_vars

\* The history is full and the vehicle, which arrived first, has left it;
\* a human that arrived before a quiet answer still precedes it.
OldestPredictionDropped ==
    LET history == cluster_heads[1].prediction_history
    IN /\ Len(history) = MaxPredictionHistory
       /\ \A n \in Indices(history) : history[n].prediction # "vehicle"
       /\ history[1].prediction = "human"
       /\ history[MaxPredictionHistory].prediction = "normal"

\* C27: the data buffer of every cluster head and the two streams stay
\* within a fixed bound, here the limit of the streams, however many
\* collections have run.
BuffersBounded ==
    /\ \A k \in Indices(cluster_heads) :
          Len(cluster_heads[k].data_buffer) <= StreamLimit
    /\ sensor_data_stream <= StreamLimit
    /\ camera_data_stream <= StreamLimit

\* The step logs a classification of the head in turn that is not normal
\* and whose confidence is above the threshold.
QualifyingClassification ==
    /\ pc = "process"
    /\ ch_index \in Indices(cluster_heads)
    /\ LET before == cluster_heads[ch_index].prediction_history
           after == cluster_heads'[ch_index].prediction_history
       IN /\ Len(after) = Len(before) + 1
          /\ IsAlert(after[Len(after)].prediction,
                     after[Len(after)].confidence)

\* C28: every step keeps the alerts of the log as they are and in their
\* place, appends one alert exactly when it logs a qualifying
\* classification, and leaves the alerts numbered 1, 2, ..., n in log
\* order.
AlertLogAppendOnly ==
    [][LET n == Len(intrusion_alerts)
       IN /\ Len(intrusion_alerts') >= n
          /\ SubSeq(intrusion_alerts', 1, n) = intrusion_alerts
          /\ Len(intrusion_alerts') =
                 n + (IF QualifyingClassification THEN 1 ELSE 0)
          /\ \A m \in Indices(intrusion_alerts') :
                 intrusion_alerts'[m].alert_id = m]_vars

\* Two alerts of two cycles are in the log, numbered 1 and 2.
TwoAlertsLogged ==
    /\ Len(intrusion_alerts) = 2
    /\ intrusion_alerts[1].alert_id = 1
    /\ intrusion_alerts[2].alert_id = 2
    /\ cycle_count = 2
    /\ pc = "ready"
    /\ \E k \in Indices(cluster_heads) :
          Len(cluster_heads[k].prediction_history) = 2

\* The run is between two cycles or over.
AtCycleBoundary == pc \in {"ready", "done"}

\* C29: at every cycle boundary the detected intrusions are at most the
\* spawned ones and as many as the recorded response times; the detection
\* rate of a report is detected / total (0 when nothing has spawned) and
\* lies in [0, 1]; a step that displays the report without raising an
\* alert changes nothing of the simulation.
CountersConsistent ==
    /\ [](AtCycleBoundary =>
            /\ performance_metrics.detected_intrusions
                   <= performance_metrics.total_intrusions
            /\ Len(performance_metrics.response_times)
                   = performance_metrics.detected_intrusions)
    /\ [](\A r \in Indices(final_reports) :
            LET rate == final_reports[r].detection_rate
                detected == final_reports[r].intrusions_detected
                total == final_reports[r].total_intrusions
            IN /\ rate[2] > 0
               /\ 0 <= rate[1]
               /\ rate[1] <= rate[2]
               /\ IF total = 0 THEN rate[1] = 0
                  ELSE rate[1] * total = detected * rate[2])
    /\ [][(/\ Len(final_reports') > Len(final_reports)
           /\ intrusion_alerts' = intrusion_alerts)
          => UNCHANGED <<sensor_nodes, cluster_heads, current_intrusions,
                         simulation_time, cycle_count, performance_metrics,
                         sensor_data_stream, camera_data_stream>>]_vars

\* The report of a run in which one of two intrusions was detected gives a
\* rate of one half.
HalfDetectedReported ==
    /\ pc = "done"
    /\ Len(final_reports) = 1
    /\ final_reports[1].detection_rate = <<1, 2>>
    /\ Len(performance_metrics.response_times) = 1

\* The active members of head k in range whose camera module is recording.
RecordingMembers(k) ==
    {i \in Indices(sensor_nodes) :
        /\ sensor_nodes[i].is_active
        /\ sensor_nodes[i].cluster_head_id = k
        /\ IsInRange(cluster_heads[k], sensor_nodes[i])
        /\ sensor_nodes[i].has_camera
        /\ sensor_nodes[i].camera_module.status = "RECORDING"}

\* C30: the camera_nodes of a snapshot is the number of the active members
\* of the cluster that have a camera whose module is recording when the
\* head aggregates, the cameras that started or stopped recording in the
\* collection of the same cycle included.
SnapshotCountsRecording ==
    [][(/\ pc = "process"
        /\ ch_index \in Indices(cluster_heads)
        /\ Len(cluster_heads'[ch_index].data_buffer)
               > Len(cluster_heads[ch_index].data_buffer))
       => LET buffer == cluster_heads'[ch_index].data_buffer
          IN buffer[Len(buffer)].sensor_summary.camera_nodes
                 = Cardinality(RecordingMembers(ch_index))]_vars

\* C31: when a cycle produces a snapshot, its max_temperature is the
\* maximum over the active members of the maximum of the member's thermal
\* history; that history holds at most 50 entries and ends with the
\* member's reading of the cycle, so that max_temperature is at least the
\* thermal reading of every active member.
MaxTemperatureIsRollingMax ==
    [][(/\ pc = "process"
        /\ ch_index \in Indices(cluster_heads)
        /\ Len(cluster_heads'[ch_index].data_buffer)
               > Len(cluster_heads[ch_index].data_buffer))
       => LET buffer == cluster_heads'[ch_index].data_buffer
              summary == buffer[Len(buffer)].sensor_summary
              members == ActiveMembers(ch_index, sensor_nodes, cluster_heads)
              history(m) == sensor_nodes[members[m]].thermal_history
              reading(m) == sensor_nodes[members[m]].sensor_readings.thermal
          IN /\ \A m \in Indices(members) :
                   /\ history(m) # <<>>
                   /\ Len(history(m)) <= MaxHistoryLength
                   /\ history(m)[Len(history(m))] = reading(m)
                   /\ summary.max_temperature >= MaxSeq(history(m))
                   /\ summary.max_temperature >= reading(m)
             /\ \E m \in Indices(members) :
                   summary.max_temperature = MaxSeq(history(m))]_vars

\* The snapshot of the second head reports the 55 degrees of the vehicle of
\* the cycle before while its member reads the 36 degrees of a human.
SpikeCarriedOver ==
    /\ cycle_count = 2
    /\ pc = "process"
    /\ ch_index > 2
    /\ Len(cluster_heads[2].data_buffer) = 2
    /\ cluster_heads[2].data_buffer[2].sensor_summary.max_temperature = 55
    /\ \A i \in Indices(sensor_nodes) :
          sensor_nodes[i].cluster_head_id = 2 =>
              sensor_nodes[i].sensor_readings.thermal = 36

\* The intrusions that are not yet detected and strictly less than 100
\* units from the cluster head k.
Undetected(k) ==
    {j \in Indices(current_intrusions) :
        /\ ~current_intrusions[j].detected
        /\ Abs(current_intrusions[j].position - cluster_heads[k].x) < 100}

\* C32: a step that raises an alert marks no intrusion when none is
\* undetected within 100 units of the alerting head, and otherwise marks
\* the first such intrusion of the list and no other, counts it, and
\* records simulation_time minus its start_time.
AlertMarksFirstUndetected ==
    [][(/\ pc = "process"
        /\ ch_index \in Indices(cluster_heads)
        /\ Len(intrusion_alerts') > Len(intrusion_alerts))
       => IF Undetected(ch_index) = {}
          THEN UNCHANGED <<current_intrusions, performance_metrics>>
          ELSE LET j == MinOf(Undetected(ch_index))
               IN /\ current_intrusions' =
                         [current_intrusions EXCEPT ![j].detected = TRUE]
                  /\ performance_metrics' =
                         [performance_metrics EXCEPT
                             !.detected_intrusions = @ + 1,
                             !.response_times =
                                 Append(@, simulation_time
                                           - current_intrusions[j]
                                                 .start_time)]]_vars

\* Two intrusions near the second head were undetected when it alerted:
\* the first of the list is marked, a cycle after it spawned, and the
\* second is not.
SecondQualifyingLeftUndetected ==
    /\ Len(current_intrusions) = 2
    /\ Len(intrusion_alerts) = 1
    /\ intrusion_alerts[1].cluster_id = 2
    /\ \A j \in {1, 2} :
          Abs(current_intrusions[j].position - cluster_heads[2].x) < 100
    /\ current_intrusions[1].detected
    /\ ~current_intrusions[2].detected
    /\ performance_metrics.response_times = <<1>>

\* C33: after the synthesis the affected_nodes of every active intrusion
\* is the number of active nodes within the activation radius of its own
\* position, also when intrusions of one type lie less than 10 units
\* apart.
AffectedNodesOwnCount ==
    AfterSynthesis =>
        \A j \in Indices(current_intrusions) :
            current_intrusions[j].affected_nodes
                = Cardinality({i \in Indices(sensor_nodes) :
                                  InActivationRadius(i, j)})

\* The active nodes that have a camera.
ActiveCameraNodes ==
    {i \in Indices(sensor_nodes) :
        sensor_nodes[i].is_active /\ sensor_nodes[i].has_camera}

\* Node i lies within 1.2 * detection_range of an intrusion of the list.
NearAnIntrusion(i, intrusions) ==
    \E j \in Indices(intrusions) :
        10 * Abs(sensor_nodes[i].x - intrusions[j].position)
            <= 12 * DetectionRange(intrusions[j].type)

\* C34: the collection of a cycle leaves a faulty camera of an active node
\* faulty, and every other camera of an active node RECORDING when the
\* node has its intrusion_detected flag set or lies within 1.2 *
\* detection_range of an active intrusion, and IDLE otherwise.
CameraFollowsIntrusions ==
    [][(pc = "collect" /\ pc' = "process")
       => \A i \in ActiveCameraNodes :
              LET before == sensor_nodes[i].camera_module.status
                  after == sensor_nodes'[i].camera_module.status
                  wanted ==
                      \/ sensor_nodes'[i].sensor_readings.intrusion_detected
                      \/ NearAnIntrusion(i, current_intrusions')
              IN IF before = "FAULTY" THEN after = "FAULTY"
                 ELSE after = IF wanted THEN "RECORDING" ELSE "IDLE"]_vars

\* After a collection the camera node records a vehicle that is within
\* 1.2 * detection_range but outside the activation radius, its flag not
\* set.
RecordingWithoutFlag ==
    /\ pc = "process"
    /\ \E i \in ActiveCameraNodes :
          /\ sensor_nodes[i].camera_module.status = "RECORDING"
          /\ ~sensor_nodes[i].sensor_readings.intrusion_detected
          /\ NearAnIntrusion(i, current_intrusions)

\* The camera modules of the nodes that have one.
CameraModules ==
    {sensor_nodes[i].camera_module :
        i \in {n \in Indices(sensor_nodes) : sensor_nodes[n].has_camera}}

\* C35: the status of a camera is always IDLE, RECORDING or FAULTY and its
\* total_recordings the length of its footage log; activate_recording on a
\* faulty camera or on an inactive node, and stop_recording on a camera
\* that is not recording, change nothing; a faulty camera stays as it is
\* through every step but a fault pass, which may put it in IDLE.
CameraStatusDiscipline ==
    /\ [](\A cam \in CameraModules :
            /\ cam.status \in {"IDLE", "RECORDING", "FAULTY"}
            /\ cam.total_recordings = cam.footage_log
            /\ ActivateRecording(cam, FALSE) = cam
            /\ cam.status = "FAULTY" => ActivateRecording(cam, TRUE) = cam
            /\ cam.status # "RECORDING" => StopRecording(cam) = cam)
    /\ [][\A i \in Indices(sensor_nodes) :
            (/\ sensor_nodes[i].has_camera
             /\ sensor_nodes[i].camera_module.status = "FAULTY")
            => \/ sensor_nodes'[i].camera_module
                      = sensor_nodes[i].camera_module
               \/ /\ pc = "ready"
                  /\ pc' = "intrusions"
                  /\ sensor_nodes'[i].camera_module =
                         [sensor_nodes[i].camera_module EXCEPT
                             !.status = "IDLE"]]_vars

\* A camera that had recorded failed in the fault pass of the second cycle
\* and has gone through a collection that wanted it recording.
FaultyCameraAskedToRecord ==
    /\ pc = "process"
    /\ cycle_count = 2
    /\ \E i \in ActiveCameraNodes :
          /\ sensor_nodes[i].camera_module.status = "FAULTY"
          /\ sensor_nodes[i].camera_module.footage_log = 1
          /\ NearAnIntrusion(i, current_intrusions)

\* The intrusions the step marks as detected.
MarkedInStep ==
    {j \in Indices(current_intrusions) :
        /\ j \in Indices(current_intrusions')
        /\ ~current_intrusions[j].detected
        /\ current_intrusions'[j].detected}

\* C36: a step that records a response time records it for the one
\* intrusion it marks as detected, and the time is at least 0 and less than
\* the duration of that intrusion.
ResponseTimeWithinDuration ==
    [][performance_metrics'.response_times
           # performance_metrics.response_times
       => LET times == performance_metrics'.response_times
              latest == times[Len(times)]
          IN /\ Len(times) = Len(performance_metrics.response_times) + 1
             /\ Cardinality(MarkedInStep) = 1
             /\ \A j \in MarkedInStep :
                   /\ latest = simulation_time
                                  - current_intrusions[j].start_time
                   /\ 0 <= latest
                   /\ latest < current_intrusions[j].duration]_vars

\* An intrusion that lasts two cycles was detected in its second cycle,
\* one time unit after it spawned.
DetectedInLastCycleOfStay ==
    /\ performance_metrics.response_times # <<>>
    /\ \E j \in Indices(current_intrusions) :
          /\ current_intrusions[j].detected
          /\ current_intrusions[j].duration = DurationMax
          /\ simulation_time - current_intrusions[j].start_time
                 = DurationMax - 1
          /\ performance_metrics.response_times
                 = <<DurationMax - 1>>

\* Intrusion j is 100 units or more from the x of every cluster head.
OutOfReach(j) ==
    \A k \in Indices(cluster_heads) :
        Abs(current_intrusions[j].position - cluster_heads[k].x) >= 100

\* C37: an intrusion 100 units or more from the x of every cluster head is
\* never marked detected.
FarIntrusionNeverDetected ==
    \A j \in Indices(current_intrusions) :
        OutOfReach(j) => ~current_intrusions[j].detected

\* An intrusion at position 100 has stayed two cycles, the first head has
\* alerted in both, and the intrusion is not detected.
AlertedTwiceBesideFarIntrusion ==
    /\ pc = "ready"
    /\ cycle_count = 2
    /\ \E j \in Indices(current_intrusions) :
          /\ current_intrusions[j].position = 100
          /\ current_intrusions[j].start_time = 0
          /\ OutOfReach(j)
          /\ ~current_intrusions[j].detected
    /\ Len(SelectSeq(intrusion_alerts, LAMBDA a : a.cluster_id = 1)) = 2

\* Intrusion j is strictly within 100 units of a cluster head that has an
\* active member in range.
InReach(j) ==
    \E k \in Indices(cluster_heads) :
        /\ Abs(current_intrusions[j].position - cluster_heads[k].x) < 100
        /\ ActiveMembers(k, sensor_nodes, cluster_heads) # <<>>

\* The cluster heads of the cycle have had their turn, or the next cycle
\* has not yet dropped the expired intrusions.
CycleProcessed ==
    \/ pc \in {"finish", "ready", "intrusions"}
    \/ pc = "process" /\ ch_index > Len(cluster_heads)

\* C38: when the classifier answers every snapshot with a label other than
\* normal and a confidence above the threshold, every intrusion within
\* reach is detected once the heads of the cycle in which it spawned have
\* had their turn, and stays so until the list drops it; every recorded
\* latency is 0.
DetectedInSpawnCycle ==
    /\ CycleProcessed =>
           \A j \in Indices(current_intrusions) :
               InReach(j) => current_intrusions[j].detected
    /\ \A n \in Indices(performance_metrics.response_times) :
           performance_metrics.response_times[n] = 0

\* Two intrusions near the second head, spawned in two cycles, are both
\* detected with latency 0 at the end of the second cycle.
BothDetectedAtOnce ==
    /\ pc = "finish"
    /\ cycle_count = 2
    /\ Len(current_intrusions) = 2
    /\ \A j \in {1, 2} :
          InReach(j) /\ current_intrusions[j].detected
    /\ current_intrusions[2].start_time = simulation_time
    /\ performance_metrics.response_times = <<0, 0>>

====
